---- MODULE Spec2Model ----
(***************************************************************************)
(* Adaptive quality/cost OCR engine of change-ocr: the PDF escalation loop *)
(* (services/geminiService.ts) and the image-sequence loop                 *)
(* (services/imageService.ts), their shared cache store (localStorage),    *)
(* the lifecycle events and the chunk stream handed to the consumer.       *)
(*                                                                         *)
(* Units.  Scores of the quality heuristic and of the verifier are kept in *)
(* basis points (10000 = 1.0).  The effective score of an attempt is kept  *)
(* in 1/1000000, so that 0.78*h + 0.22*v is the exact integer 78*h + 22*v  *)
(* and an unblended score h is 100*h.  Text content is a rope: pieces      *)
(* [src, from, to) of the texts returned by the inference service, so that *)
(* slicing, trimming and concatenation are computed, not assumed.          *)
(***************************************************************************)
EXTENDS Integers, Sequences, FiniteSets, TLC

VARIABLES
  world,        \* the document under analysis and the state of the storage
  cache,        \* localStorage: cache key -> stored entry
  now,          \* Date.now()
  deployed,     \* the policy fingerprint input of the running build
  reqCount,     \* number of analysis requests issued so far
  req,          \* the request in progress: override, key, candidates, lookup
  loops,        \* escalation loops the live requests so far account for
  pc,           \* position of the request's control flow
  idx,          \* index into candidateProfiles of the attempt in progress
  cursor,       \* image mode: index of the next page to resolve
  accumulated,  \* image mode: text assembled so far
  highestProfile,   \* image mode: running maximum profile
  minQualityScore,  \* image mode: running minimum effective score
  carryContext, \* image mode: continuity snippet for the next span
  attempt,      \* the attempt whose text is complete
  pending,      \* chunks the stream has still to yield
  trace,        \* effects of the request, in program order, since the
                \* current span (or the PDF run) started
  spans,        \* image mode: what the earlier spans of the request did
  lastRun,      \* history: cache key -> the latest live run completed under it
  suspended     \* the request that waits at a suspension point while this one runs

vars == <<world, cache, now, deployed, reqCount, req, loops, pc, idx, cursor,
          accumulated, highestProfile, minQualityScore, carryContext, attempt,
          pending, trace, spans, lastRun, suspended>>

----------------------------------------------------------------------------
(* Bounds of the model *)

MaxPages == 2
MaxRequests == 2
MaxLoops == 2

----------------------------------------------------------------------------
(* constants.ts *)

OCR_PROFILE_ORDER == <<"economy", "balanced", "accuracy">>

PDF_BALANCED_MAX_MB == 4
PDF_ECONOMY_MIN_MB == 12
PDF_ESCALATION_THRESHOLD == 4500
OCR_CACHE_TTL_MS == 86400000
OUTPUT_STREAM_CHUNK_SIZE == 1400
QUALITY_VERIFIER_SAMPLE_CHARS == 2200

OCR_CACHE_SCHEMA_VERSION == "v4"
OCR_POLICY_FINGERPRINT_VERSION == "2026-02-07"
OCR_OUTPUT_CONTRACT == "Return Markdown only."

OCR_PROFILE_POLICIES ==
  [economy  |-> [model |-> "FLASH", imageMaxDimension |-> 1600, imageChunkSize |-> 8,
                 minQualityScore |-> 5800, carryContextChars |-> 240],
   balanced |-> [model |-> "FLASH", imageMaxDimension |-> 2200, imageChunkSize |-> 5,
                 minQualityScore |-> 7200, carryContextChars |-> 420],
   accuracy |-> [model |-> "PRO", imageMaxDimension |-> 3200, imageChunkSize |-> 3,
                 minQualityScore |-> 0, carryContextChars |-> 640]]

\* The three inputs of the policy hash of the build under analysis.
SourcePolicy ==
  [version |-> OCR_POLICY_FINGERPRINT_VERSION,
   outputContract |-> OCR_OUTPUT_CONTRACT,
   profilePolicies |-> OCR_PROFILE_POLICIES]

\* A later build whose policy table has one threshold altered.
AlteredPolicy ==
  [SourcePolicy EXCEPT !.profilePolicies.economy.minQualityScore = 6000]

ProfilePolicies == deployed.profilePolicies

ProfileIndex(p) == CHOOSE i \in 1..Len(OCR_PROFILE_ORDER) : OCR_PROFILE_ORDER[i] = p

----------------------------------------------------------------------------
(* Small helpers *)

Min(a, b) == IF a <= b THEN a ELSE b
Max(a, b) == IF a >= b THEN a ELSE b

BP == 10000              \* the score 1 in basis points
HeuristicWeight == 78    \* 0.78 of the blend
VerifierWeight == 22     \* 0.22 of the blend

----------------------------------------------------------------------------
(* Text.  A text returned by the inference service is [id, kind]; its      *)
(* measurable features are those of its kind.                              *)

TextFeatures ==
  [long  |-> [len |-> 2801, lead |-> 0, trail |-> 1, cr |-> 0, lines |-> 40,
              shortLines |-> 0, headings |-> 2, tableLines |-> 0, unreadable |-> 0,
              placeholder |-> 0, blobs |-> 0, longTokens |-> 0, bursts |-> 0],
   mid   |-> [len |-> 1400, lead |-> 0, trail |-> 0, cr |-> 0, lines |-> 20,
              shortLines |-> 0, headings |-> 0, tableLines |-> 0, unreadable |-> 7,
              placeholder |-> 0, blobs |-> 4, longTokens |-> 4, bursts |-> 5],
   blank |-> [len |-> 3, lead |-> 3, trail |-> 0, cr |-> 0, lines |-> 0,
              shortLines |-> 0, headings |-> 0, tableLines |-> 0, unreadable |-> 0,
              placeholder |-> 0, blobs |-> 0, longTokens |-> 0, bursts |-> 0]]

TextKinds == DOMAIN TextFeatures

\* A text may also state its own measurements, or its own lines.
RECURSIVE SumOfLengths(_)
SumOfLengths(ls) ==
  IF ls = <<>> THEN 0 ELSE (ls[1].to - ls[1].from) + SumOfLengths(Tail(ls))

IsBlankLine(l) == l.to = l.from

RECURSIVE LeadingBlankLines(_)
LeadingBlankLines(ls) ==
  IF ls = <<>> \/ ~IsBlankLine(ls[1]) THEN 0 ELSE 1 + LeadingBlankLines(Tail(ls))

RECURSIVE TrailingBlankLines(_)
TrailingBlankLines(ls) ==
  IF ls = <<>> \/ ~IsBlankLine(ls[Len(ls)]) THEN 0
  ELSE 1 + TrailingBlankLines(SubSeq(ls, 1, Len(ls) - 1))

\* The measurements of the text whose lines, joined by "\n", are ls.
MeasuredLines(ls) ==
  LET kept == SelectSeq(ls, LAMBDA l : ~IsBlankLine(l))
      len == SumOfLengths(ls) + Max(0, Len(ls) - 1)
  IN  [len |-> len,
       lead |-> IF kept = <<>> THEN len ELSE LeadingBlankLines(ls),
       trail |-> IF kept = <<>> THEN 0 ELSE TrailingBlankLines(ls),
       cr |-> 0, lines |-> Len(kept),
       shortLines |-> Len(SelectSeq(kept, LAMBDA l : l.to - l.from <= 2)),
       headings |-> Len(SelectSeq(kept, LAMBDA l : l.heading)),
       tableLines |-> Len(SelectSeq(kept, LAMBDA l : l.table)),
       unreadable |-> 0, placeholder |-> 0, blobs |-> 0, longTokens |-> 0,
       bursts |-> 0]

F(text) ==
  IF "features" \in DOMAIN text THEN text.features
  ELSE IF "lines" \in DOMAIN text THEN MeasuredLines(text.lines)
  ELSE TextFeatures[text.kind]

\* text.trim().length
TrimmedLength(text) == Max(0, F(text).len - F(text).lead - F(text).trail)

----------------------------------------------------------------------------
(* Ropes *)

SepId == <<0, 0, 0>>      \* the "\n\n" separator of the image assembler

RECURSIVE RopeLen(_)
RopeLen(r) == IF r = <<>> THEN 0 ELSE (r[1].to - r[1].from) + RopeLen(Tail(r))

\* r1 + r2 (string concatenation): adjacent pieces of one source are merged.
Concat(r1, r2) ==
  IF r1 = <<>> THEN r2
  ELSE IF r2 = <<>> THEN r1
  ELSE LET a == r1[Len(r1)]
           b == r2[1]
       IN  IF a.src = b.src /\ a.to = b.from
             THEN SubSeq(r1, 1, Len(r1) - 1) \o <<[a EXCEPT !.to = b.to]>> \o Tail(r2)
             ELSE r1 \o r2

\* r.slice(a, b) for 0 <= a <= b
RECURSIVE Slice(_, _, _)
Slice(r, a, b) ==
  IF r = <<>> \/ a >= b THEN <<>>
  ELSE LET p == r[1]
           n == p.to - p.from
       IN  IF a >= n THEN Slice(Tail(r), a - n, b - n)
           ELSE <<[p EXCEPT !.from = p.from + a, !.to = p.from + Min(b, n)]>>
                  \o Slice(Tail(r), 0, b - n)

RECURSIVE ConcatAll(_)
ConcatAll(chunks) ==
  IF chunks = <<>> THEN <<>> ELSE Concat(chunks[1], ConcatAll(Tail(chunks)))

\* The whole text as a rope.
TextRope(text) ==
  IF F(text).len = 0 THEN <<>>
  ELSE <<[src |-> text.id, from |-> 0, to |-> F(text).len]>>

\* text.trim()
Trim(text) ==
  IF TrimmedLength(text) = 0 THEN <<>>
  ELSE <<[src |-> text.id, from |-> F(text).lead, to |-> F(text).len - F(text).trail]>>

Separator == <<[src |-> SepId, from |-> 0, to |-> 2]>>

\* createTextStream: the chunks of a text, in order
createTextStream(text) ==
  LET n == RopeLen(text)
      count == (n + OUTPUT_STREAM_CHUNK_SIZE - 1) \div OUTPUT_STREAM_CHUNK_SIZE
  IN  [i \in 1..count |->
         Slice(text, (i - 1) * OUTPUT_STREAM_CHUNK_SIZE, i * OUTPUT_STREAM_CHUNK_SIZE)]

----------------------------------------------------------------------------
(* Quality heuristic.  Rates are exact for the texts of TextFeatures (see   *)
(* HeuristicExact): every division below leaves no remainder.               *)

Chars(text) == Max(F(text).len - F(text).cr, 1)

ShortLineRateTimes(text, weight) ==
  IF F(text).lines = 0 THEN weight
  ELSE (F(text).shortLines * weight) \div F(text).lines

StructureSignal(text) == F(text).headings + F(text).tableLines

\* a heuristic that leaves out the final clamp
evaluateQualityPdfUnclamped(text) ==
  LET f == F(text)
      chars == Chars(text)
      raw == BP - ((f.unreadable * 22000) \div chars)
                - Min(1500, (f.placeholder * 6000) \div chars)
                - ShortLineRateTimes(text, 4500)
                - Min(2500, f.blobs * 300)
                - Min(2000, f.longTokens * 200)
                - Min(2500, f.bursts * 400)
                - (IF TrimmedLength(text) < 120 THEN 2500 ELSE 0)
                - (IF StructureSignal(text) = 0 /\ f.lines > 40 THEN 600 ELSE 0)
      triggered ==
        (IF f.unreadable * 1000 > 3 * chars THEN <<"unreadable">> ELSE <<>>)
        \o (IF f.placeholder * 100 > 2 * chars THEN <<"placeholder">> ELSE <<>>)
        \o (IF ShortLineRateTimes(text, 100) > 35 THEN <<"fragmented">> ELSE <<>>)
        \o (IF f.blobs > 3 THEN <<"symbols">> ELSE <<>>)
        \o (IF f.longTokens > 2 THEN <<"long-tokens">> ELSE <<>>)
        \o (IF f.bursts > 1 THEN <<"bursts">> ELSE <<>>)
        \o (IF TrimmedLength(text) < 120 THEN <<"short">> ELSE <<>>)
  IN  [score |-> raw,
       reasons |-> IF triggered = <<>> THEN <<"stable">> ELSE triggered]

\* geminiService.ts evaluateQuality
evaluateQualityPdf(text) ==
  LET f == F(text)
      chars == Chars(text)
      raw == BP - ((f.unreadable * 22000) \div chars)
                - Min(1500, (f.placeholder * 6000) \div chars)
                - ShortLineRateTimes(text, 4500)
                - Min(2500, f.blobs * 300)
                - Min(2000, f.longTokens * 200)
                - Min(2500, f.bursts * 400)
                - (IF TrimmedLength(text) < 120 THEN 2500 ELSE 0)
                - (IF StructureSignal(text) = 0 /\ f.lines > 40 THEN 600 ELSE 0)
      triggered ==
        (IF f.unreadable * 1000 > 3 * chars THEN <<"unreadable">> ELSE <<>>)
        \o (IF f.placeholder * 100 > 2 * chars THEN <<"placeholder">> ELSE <<>>)
        \o (IF ShortLineRateTimes(text, 100) > 35 THEN <<"fragmented">> ELSE <<>>)
        \o (IF f.blobs > 3 THEN <<"symbols">> ELSE <<>>)
        \o (IF f.longTokens > 2 THEN <<"long-tokens">> ELSE <<>>)
        \o (IF f.bursts > 1 THEN <<"bursts">> ELSE <<>>)
        \o (IF TrimmedLength(text) < 120 THEN <<"short">> ELSE <<>>)
  IN  [score |-> Max(0, Min(BP, raw)),
       reasons |-> IF triggered = <<>> THEN <<"stable">> ELSE triggered]

\* imageService.ts evaluateQuality
evaluateQualityImage(text) ==
  LET f == F(text)
      chars == Chars(text)
      raw == BP - ((f.unreadable * 23000) \div chars)
                - Min(1500, (f.placeholder * 6500) \div chars)
                - ShortLineRateTimes(text, 4000)
                - Min(2500, f.blobs * 300)
                - Min(2000, f.longTokens * 200)
                - Min(2500, f.bursts * 400)
                - (IF TrimmedLength(text) < 80 THEN 2000 ELSE 0)
                - (IF StructureSignal(text) = 0 /\ f.lines > 30 THEN 600 ELSE 0)
      triggered ==
        (IF f.unreadable * 1000 > 4 * chars THEN <<"unreadable">> ELSE <<>>)
        \o (IF f.placeholder * 1000 > 25 * chars THEN <<"placeholder">> ELSE <<>>)
        \o (IF ShortLineRateTimes(text, 100) > 40 THEN <<"fragmented">> ELSE <<>>)
        \o (IF f.blobs > 3 THEN <<"symbols">> ELSE <<>>)
        \o (IF f.longTokens > 2 THEN <<"long-tokens">> ELSE <<>>)
        \o (IF f.bursts > 1 THEN <<"bursts">> ELSE <<>>)
        \o (IF TrimmedLength(text) < 80 THEN <<"short">> ELSE <<>>)
  IN  [score |-> Max(0, Min(BP, raw)),
       reasons |-> IF triggered = <<>> THEN <<"stable">> ELSE triggered]

\* The divisions of the heuristic are exact on every text of the catalogue.
HeuristicExact ==
  \A k \in TextKinds :
    LET t == [id |-> <<1, 1, 1>>, kind |-> k]
        f == F(t)
    IN  /\ (f.unreadable * 22000) % Chars(t) = 0
        /\ (f.unreadable * 23000) % Chars(t) = 0
        /\ (f.placeholder * 6000) % Chars(t) = 0
        /\ (f.placeholder * 6500) % Chars(t) = 0
        /\ f.lines > 0 => (f.shortLines * 500) % f.lines = 0

\* requiredPdfScore
requiredPdfScore(profile) ==
  IF profile = "accuracy" THEN 0
  ELSE Max(PDF_ESCALATION_THRESHOLD, ProfilePolicies[profile].minQualityScore - 1000)

\* const requiredScore = OCR_PROFILE_POLICIES[profile].minQualityScore
requiredImageScore(profile) == ProfilePolicies[profile].minQualityScore

\* qualityScore of an attempt; verifierScore is a score in basis points or NoOpinion
NoOpinion == -1

\* the blend with its two weights exchanged
blendScoreSwapped(heuristic, verifierScore) ==
  IF verifierScore = NoOpinion
    THEN heuristic * (HeuristicWeight + VerifierWeight)
    ELSE (heuristic * VerifierWeight) + (verifierScore * HeuristicWeight)

blendScore(heuristic, verifierScore) ==
  IF verifierScore = NoOpinion
    THEN heuristic * (HeuristicWeight + VerifierWeight)
    ELSE (heuristic * HeuristicWeight) + (verifierScore * VerifierWeight)

\* a required score on the scale of blendScore
OnBlendScale(required) == required * (HeuristicWeight + VerifierWeight)

----------------------------------------------------------------------------
(* Candidate profiles *)

\* toMB
toMB(pdf) == ((pdf.len * 3) \div 4) \div (1024 * 1024)

\* an initial profile that takes only documents of at most 4 MB for small
decideInitialPdfProfileUnfloored(pdf) ==
  IF toMB(pdf) >= PDF_ECONOMY_MIN_MB THEN "economy"
  ELSE IF pdf.len * 3 <= PDF_BALANCED_MAX_MB * 4 * 1024 * 1024 THEN "balanced"
  ELSE "economy"

decideInitialPdfProfile(pdf) ==
  IF toMB(pdf) >= PDF_ECONOMY_MIN_MB THEN "economy"
  ELSE IF toMB(pdf) <= PDF_BALANCED_MAX_MB THEN "balanced"
  ELSE "economy"

resolvePdfCandidateProfiles(pdf, modelOverride) ==
  LET initial == decideInitialPdfProfile(pdf)
  IN  IF modelOverride = "PRO" THEN <<"accuracy">>
      ELSE IF modelOverride = "FLASH"
        THEN (IF initial = "balanced" THEN <<"balanced">> ELSE <<"economy", "balanced">>)
      ELSE IF initial = "balanced" THEN <<"balanced", "accuracy">>
      ELSE <<"economy", "balanced", "accuracy">>

\* candidates cut down as those of a small PDF
resolveImageCandidateProfilesTruncated(modelOverride) ==
  IF modelOverride = "PRO" THEN <<"accuracy">>
  ELSE IF modelOverride = "FLASH" THEN <<"balanced">>
  ELSE <<"balanced", "accuracy">>

resolveImageCandidateProfilesReversed(modelOverride) ==
  IF modelOverride = "PRO" THEN <<"accuracy">>
  ELSE IF modelOverride = "FLASH" THEN <<"balanced", "economy">>
  ELSE <<"accuracy", "balanced", "economy">>

resolveImageCandidateProfiles(modelOverride) ==
  IF modelOverride = "PRO" THEN <<"accuracy">>
  ELSE IF modelOverride = "FLASH" THEN <<"economy", "balanced">>
  ELSE OCR_PROFILE_ORDER

\* a lookup that sends every profile without an override to the low tier
modelForProfileLowTier(profile, modelOverride) ==
  IF modelOverride # "none" THEN modelOverride ELSE "FLASH"

modelForProfile(profile, modelOverride) ==
  IF modelOverride # "none" THEN modelOverride ELSE ProfilePolicies[profile].model

\* a fold that keeps the profile of the latest span
maxProfileLatest(current, next) == next

maxProfile(current, next) ==
  IF ProfileIndex(next) > ProfileIndex(current) THEN next ELSE current

----------------------------------------------------------------------------
(* Inputs of a request *)

Overrides == {"none", "FLASH", "PRO"}

\* App.tsx passes one fixed prompt per mode.
Prompt(mode) == IF mode = "pdf" THEN "INITIAL_PROMPT" ELSE "INITIAL_IMAGE_PROMPT"

\* A PDF payload: its base64 length and the three 512-character samples.
\* The five documents have 3 MB, 4.5 MB, 5 MB, 12 MB and 20 MB.
PdfDocs ==
  { [len |-> 4194304, head |-> "JVBERi0x", middle |-> "c21hbGw", tail |-> "RU9GCg"],
    [len |-> 6291456, head |-> "JVBERi0x", middle |-> "NC41TUI", tail |-> "RU9GCg"],
    [len |-> 6990507, head |-> "JVBERi0x", middle |-> "NU1CCg", tail |-> "RU9GCg"],
    [len |-> 16777216, head |-> "JVBERi0x", middle |-> "MTJNQgo", tail |-> "RU9GCg"],
    [len |-> 27962027, head |-> "JVBERi0x", middle |-> "bGFyZ2U", tail |-> "RU9GCg"] }

\* An ordered image sequence of n pages.
ImageFile(i) ==
  [name |-> i, type |-> "image/png", size |-> 1000 + i, lastModified |-> 1,
   base64Length |-> 1336 + i, head |-> "iVBORw0K", tail |-> "ElFTkSuQmCC"]

ImageSequence(n) == [i \in 1..n |-> ImageFile(i)]

\* App.tsx starts no analysis without an image.
ImageInputs == {ImageSequence(n) : n \in 1..MaxPages}

\* The document of a behaviour, and whether localStorage accepts writes.
\* localStorage: working, or out of quota (setItem throws) ...
StorageStates == {"ok", "full"}

\* ... or out of reach (getItem and setItem throw), or holding text that is no
\* JSON under the request's keys
BrokenStorageStates == {"denied", "garbled"}

Worlds ==
  { [mode |-> "pdf", input |-> d, storage |-> s] : d \in PdfDocs, s \in StorageStates }
  \cup { [mode |-> "image", input |-> i, storage |-> s] :
            i \in ImageInputs, s \in StorageStates }
  \cup { [mode |-> "pdf", input |-> CHOOSE d \in PdfDocs : d.len = 4194304,
           storage |-> s] : s \in BrokenStorageStates }
  \cup { [mode |-> "image", input |-> ImageSequence(MaxPages), storage |-> s] :
            s \in BrokenStorageStates }

\* What the inference service may answer to a verifier request.
VerifierReplies ==
  { [kind |-> "error", score |-> 0], [kind |-> "unparseable", score |-> 0],
    [kind |-> "score", score |-> 0], [kind |-> "score", score |-> BP] }

----------------------------------------------------------------------------
(* Fingerprint and cache store *)

\* The hash, taken to be injective.
sha256Hex(input) == <<"sha256", input>>

PolicyHashOfVersion == sha256Hex(deployed.version)

PolicyHash == sha256Hex(deployed)

\* The length and the three samples of a payload: slice(0, 512),
\* slice(middle, middle + 512) and slice(-512).  A payload states its samples,
\* or its whole content, from which they are cut.
PdfSamples(pdfBase64) ==
  IF "content" \in DOMAIN pdfBase64
    THEN LET content == pdfBase64.content
             length == RopeLen(content)
             middle == Max(0, (length \div 2) - 256)
         IN  <<length, Slice(content, 0, 512), Slice(content, middle, middle + 512),
               Slice(content, Max(0, length - 512), length)>>
    ELSE <<pdfBase64.len, pdfBase64.head, pdfBase64.middle, pdfBase64.tail>>

\* a key over the whole payload
buildPdfCacheKeyFullHash(pdfBase64, prompt) ==
  <<"ocr-cache:pdf", OCR_CACHE_SCHEMA_VERSION, "", PolicyHash,
    sha256Hex(prompt), sha256Hex(pdfBase64)>>

buildPdfCacheKey(pdfBase64, prompt) ==
  LET fingerprint == PdfSamples(pdfBase64)
  IN  <<"ocr-cache:pdf", OCR_CACHE_SCHEMA_VERSION, "", PolicyHash,
        sha256Hex(prompt), sha256Hex(fingerprint)>>

buildImageCacheKey(images, prompt, modelOverride) ==
  LET fingerprint ==
        [i \in 1..Len(images) |->
           <<i - 1, images[i].name, images[i].type, images[i].size,
             images[i].lastModified, images[i].base64Length, images[i].head,
             images[i].tail>>]
      modelTag == IF modelOverride = "none" THEN "auto" ELSE modelOverride
  IN  <<"ocr-cache:image", OCR_CACHE_SCHEMA_VERSION, modelTag, PolicyHash,
        sha256Hex(prompt), sha256Hex(fingerprint)>>

buildCacheKey(mode, input, prompt, modelOverride) ==
  IF mode = "pdf" THEN buildPdfCacheKey(input, prompt)
  ELSE buildImageCacheKey(input, prompt, modelOverride)

\* A stored value that JSON.parse rejects.
Garbled == [raw |-> "{"]

Parses(raw) == raw # Garbled

\* localStorage.getItem throws
ReadFails == world.storage = "denied"

\* readPdfCache / readImageCache: does the lookup return the stored entry?
ExpiredAtTtl(entry, at) ==
  entry.createdAt = 0 \/ (at - entry.createdAt) >= OCR_CACHE_TTL_MS

Expired(entry, at) ==
  entry.createdAt = 0 \/ (at - entry.createdAt) > OCR_CACHE_TTL_MS

\* the try block of the read ends in the catch: getItem or JSON.parse threw
readCacheThrows(cacheKey) ==
  ReadFails \/ (cacheKey \in DOMAIN cache /\ ~Parses(cache[cacheKey]))

readCacheHits(cacheKey, at) ==
  /\ ~readCacheThrows(cacheKey)
  /\ cacheKey \in DOMAIN cache
  /\ ~Expired(cache[cacheKey], at)

\* a lookup that leaves an expired entry in the store
readCacheStoreKeeping(cacheKey, at) == cache

\* ... and the store it leaves behind (an expired entry is removed)
readCacheStore(cacheKey, at) ==
  IF ~readCacheThrows(cacheKey) /\ cacheKey \in DOMAIN cache
       /\ Expired(cache[cacheKey], at)
    THEN [k \in DOMAIN cache \ {cacheKey} |-> cache[k]]
    ELSE cache

\* writePdfCache / writeImageCache: a failing setItem is swallowed
writeCache(store, cacheKey, entry, writeFails) ==
  IF writeFails THEN store
  ELSE [k \in DOMAIN store \cup {cacheKey} |-> IF k = cacheKey THEN entry ELSE store[k]]

----------------------------------------------------------------------------
(* Trace entries: lifecycle events and the other effects of a request *)

\* an event without quality fields
Event(type, profile) == [k |-> "event", type |-> type, profile |-> profile]

\* an event with qualityScore, reasons and (when the verifier had an opinion)
\* verificationScore
QualityEvent(type, profile, qualityScore, reasons, verifierScore) ==
  IF verifierScore = NoOpinion
    THEN [k |-> "event", type |-> type, profile |-> profile,
          qualityScore |-> qualityScore, reasons |-> reasons]
    ELSE [k |-> "event", type |-> type, profile |-> profile,
          qualityScore |-> qualityScore, reasons |-> reasons,
          verificationScore |-> verifierScore]

\* an event that carries a score only: cache-hit, and completed of a cached or
\* assembled result
ScoreEvent(type, profile, quality) ==
  [k |-> "event", type |-> type, profile |-> profile, qualityScore |-> quality]

Call(what, profile, model) ==
  [k |-> "call", what |-> what, profile |-> profile, model |-> model]

Write(cacheKey, entry, failed) ==
  [k |-> "write", key |-> cacheKey, entry |-> entry, failed |-> failed]

Yield(chunk) == [k |-> "yield", text |-> chunk]

Failure(message) == [k |-> "error", message |-> message]

\* an exception reaching the catch block of an attempt
Caught(profile) == [k |-> "caught", profile |-> profile]

\* the reply to a verifier request, as runQualityVerifier receives it
Returned(reply) == [k |-> "reply", reply |-> reply]

\* the scores of an attempt's text: heuristic, verifier (or NoOpinion), effective
Scored(text, profile, heuristic, verifierScore, qualityScore) ==
  [k |-> "scored", text |-> text, profile |-> profile, heuristic |-> heuristic,
   verifier |-> verifierScore, qualityScore |-> qualityScore]

Accepted(text, profile, qualityScore) ==
  [k |-> "accepted", text |-> text, profile |-> profile, qualityScore |-> qualityScore]

Rejected(text, profile, qualityScore) ==
  [k |-> "rejected", text |-> text, profile |-> profile, qualityScore |-> qualityScore]

----------------------------------------------------------------------------
(* Carry context: the continuity snippet taken from an accepted span.  The  *)
(* lines of a text and of its trimmed form are the same.                   *)

NoCarryContext == <<>>

NewlineId == <<0, 0, 1>>     \* the "\n" between two lines

Newline == <<[src |-> NewlineId, from |-> 0, to |-> 1]>>

\* The lines of a catalogue text: evenly long, headings first, then table rows.
LaidOutLines(text) ==
  LET f == F(text)
      n == f.lines
      room == TrimmedLength(text) - (n - 1)
      lenOf(i) == (room \div n) + (IF i <= room % n THEN 1 ELSE 0)
      start[i \in 1..n] == IF i = 1 THEN f.lead ELSE start[i - 1] + lenOf(i - 1) + 1
  IN  [i \in 1..n |->
         [src |-> text.id, from |-> start[i], to |-> start[i] + lenOf(i),
          heading |-> i <= f.headings,
          table |-> f.headings < i /\ i <= f.headings + f.tableLines]]

\* text.split('\n').map(line => line.trim()).filter(Boolean)
Lines(text) ==
  IF "lines" \in DOMAIN text THEN SelectSeq(text.lines, LAMBDA l : ~IsBlankLine(l))
  ELSE LaidOutLines(text)

\* s.slice(-n)
Last(s, n) == SubSeq(s, Max(1, Len(s) - n + 1), Len(s))

\* merged.filter((line, idx) => merged.indexOf(line) === idx)
RECURSIVE Deduped(_)
Deduped(s) ==
  IF s = <<>> THEN <<>>
  ELSE LET init == SubSeq(s, 1, Len(s) - 1)
       IN  IF \E i \in 1..Len(init) : init[i] = s[Len(s)]
             THEN Deduped(init)
             ELSE Append(Deduped(init), s[Len(s)])

\* deduped.join('\n')
RECURSIVE JoinLines(_)
JoinLines(ls) ==
  IF ls = <<>> THEN <<>>
  ELSE LET piece == <<[src |-> ls[1].src, from |-> ls[1].from, to |-> ls[1].to]>>
       IN  IF Len(ls) = 1 THEN piece ELSE piece \o Newline \o JoinLines(Tail(ls))

\* the last three headings, the last three table rows, the last four lines
CarrySelection(text) ==
  LET lines == Lines(text)
      headingLines == Last(SelectSeq(lines, LAMBDA l : l.heading), 3)
      tableLines == Last(SelectSeq(lines, LAMBDA l : l.table), 3)
      tailLines == Last(lines, 4)
  IN  Deduped(headingLines \o tableLines \o tailLines)

\* a cut written joined.slice(-maxChars)
extractCarryContextNegativeSlice(text, maxChars) ==
  LET joined == JoinLines(CarrySelection(text))
  IN  IF RopeLen(joined) <= maxChars \/ maxChars = 0 THEN joined
      ELSE Slice(joined, RopeLen(joined) - maxChars, RopeLen(joined))

extractCarryContext(text, maxChars) ==
  LET joined == JoinLines(CarrySelection(text))
  IN  IF RopeLen(joined) <= maxChars THEN joined
      ELSE Slice(joined, RopeLen(joined) - maxChars, RopeLen(joined))

----------------------------------------------------------------------------
(* Reading a trace *)

Entries(tr, kind) == SelectSeq(tr, LAMBDA e : e.k = kind)

Events(tr, type) == SelectSeq(tr, LAMBDA e : e.k = "event" /\ e.type = type)

ProfilesOf(events) == [i \in 1..Len(events) |-> events[i].profile]

TextsOf(entries) == [i \in 1..Len(entries) |-> entries[i].text]

\* the types of the events of a trace, in order of emission
EventTypes(tr) ==
  LET events == Entries(tr, "event")
  IN  [i \in 1..Len(events) |-> events[i].type]

\* What is kept of a span once the next one starts.
SpanSummary(tr) ==
  LET accepted == Entries(tr, "accepted")[1]
  IN  [pages |-> Entries(tr, "call")[1].pages,
       starts |-> ProfilesOf(Events(tr, "profile-start")),
       events |-> EventTypes(tr),
       profile |-> accepted.profile,
       qualityScore |-> accepted.qualityScore,
       text |-> accepted.text,
       yielded |-> TextsOf(Entries(tr, "yield"))]

----------------------------------------------------------------------------
(* The state machine *)

NoRequest ==
  [number |-> 0, modelId |-> "none", onEvent |-> "none", cacheKey |-> <<>>, candidateProfiles |-> <<>>, lookup |-> "none"]

NoAttempt ==
  [text |-> [id |-> <<0, 0, 0>>, kind |-> "blank"], profile |-> "economy",
   assessment |-> [score |-> 0, reasons |-> <<>>], verifierScore |-> NoOpinion,
   qualityScore |-> 0]

EmptyStore == [k \in {} |-> k]

\* The locals of a call of analyzePdfStream or analyzeImageSequenceStream that
\* has not been made yet.
NotStarted ==
  [req |-> NoRequest, pc |-> "idle", idx |-> 0, cursor |-> 0, accumulated |-> <<>>,
   highestProfile |-> "economy", minQualityScore |-> 0,
   carryContext |-> NoCarryContext, attempt |-> NoAttempt, pending |-> <<>>,
   trace |-> <<>>, spans |-> <<>>]

InProgress == pc \notin {"idle", "done", "failed"}

Mode == world.mode
Candidates == req.candidateProfiles
Profile == Candidates[idx]
IsLastProfile == idx = Len(Candidates)
Pages == IF Mode = "image" THEN Len(world.input) ELSE 0
WriteFails == world.storage \in {"full", "denied"}

\* resolveSpanWithEscalation: images.slice(startIndex, startIndex + baseChunkSize),
\* as page numbers, and the span's length (the pages it consumes)
baseChunkSize == 1

\* a span of the size the first candidate's policy declares
SpanPagesDeclared(startIndex) ==
  LET size == ProfilePolicies[Candidates[1]].imageChunkSize
  IN  [i \in 1..(Min(startIndex + size, Pages) - startIndex) |-> startIndex + i]

SpanPages(startIndex) ==
  [i \in 1..(Min(startIndex + baseChunkSize, Pages) - startIndex) |-> startIndex + i]

Consumed(startIndex) == Len(SpanPages(startIndex))

\* The escalation loops of a live run: one for a PDF, one per page span.
Loops == IF Mode = "pdf" THEN 1 ELSE Pages

\* The time between two requests: none before anything is stored, then the
\* time-to-live or a millisecond more.
Elapsed ==
  IF \A k \in DOMAIN cache : ~Parses(cache[k]) THEN {0}
  ELSE {OCR_CACHE_TTL_MS, OCR_CACHE_TTL_MS + 1}

\* minQualityScore = 1
InitialMinQualityScore == BP * (HeuristicWeight + VerifierWeight)

\* The keys a request for the world's document can have under the policy.
KeysOf(w) ==
  { buildCacheKey(w.mode, w.input, Prompt(w.mode), modelId) : modelId \in Overrides }

\* The state before the first request for the document of world w.
InitIn(w) ==
  /\ world = w
  /\ deployed = SourcePolicy
  /\ cache = IF world.storage = "garbled" THEN [k \in KeysOf(world) |-> Garbled]
               ELSE EmptyStore
  /\ now = 1
  /\ loops = 0
  /\ reqCount = 0
  /\ req = NoRequest
  /\ pc = "idle"
  /\ idx = 0
  /\ cursor = 0
  /\ accumulated = <<>>
  /\ highestProfile = "economy"
  /\ minQualityScore = 0
  /\ carryContext = NoCarryContext
  /\ attempt = NoAttempt
  /\ pending = <<>>
  /\ trace = <<>>
  /\ spans = <<>>
  /\ lastRun = EmptyStore
  /\ suspended = NotStarted

Init == \E w \in Worlds : InitIn(w)

\* A build with another policy table replaces the running one.
Upgrade ==
  /\ ~InProgress
  /\ deployed = SourcePolicy
  /\ deployed' = AlteredPolicy
  /\ UNCHANGED <<suspended, world, cache, now, reqCount, req, loops, pc, idx, cursor, accumulated,
                 highestProfile, minQualityScore, carryContext, attempt, pending,
                 trace, spans, lastRun>>

\* The runs of lastRun that a lookup at this time can still be answered from.
Fresh(runs, at) ==
  LET keep == {k \in DOMAIN runs : (at - runs[k].at) <= OCR_CACHE_TTL_MS}
  IN  [k \in keep |-> runs[k]]

\* analyzePdfStream / analyzeImageSequenceStream up to the return of the stream:
\* the cache lookup and, on a hit, the two events of a cached result.  onEvent
\* is the caller's handler and history the record kept of earlier runs.
RequestWith(modelId, elapsed, onEvent, history) ==
  /\ ~InProgress
  /\ reqCount < MaxRequests
  /\ now' = now + elapsed
  /\ LET cacheKey == buildCacheKey(Mode, world.input, Prompt(Mode), modelId)
         hit == readCacheHits(cacheKey, now + elapsed)
         cached == cache[cacheKey]
         candidates == IF Mode = "pdf"
                         THEN resolvePdfCandidateProfiles(world.input, modelId)
                         ELSE resolveImageCandidateProfiles(modelId)
     IN  /\ hit \/ loops + Loops <= MaxLoops
         /\ loops' = IF hit THEN loops ELSE loops + Loops
         /\ req' = [number |-> reqCount + 1, modelId |-> modelId, onEvent |-> onEvent, cacheKey |-> cacheKey,
                    candidateProfiles |-> IF hit THEN <<>> ELSE candidates,
                    lookup |-> IF hit THEN "hit"
                               ELSE IF readCacheThrows(cacheKey) THEN "failed"
                               ELSE IF cacheKey \in DOMAIN cache THEN "expired"
                               ELSE "miss"]
         /\ cache' = readCacheStore(cacheKey, now + elapsed)
         /\ IF hit
              THEN /\ trace' = << ScoreEvent("cache-hit", cached.profile, cached.quality),
                                  ScoreEvent("completed", cached.profile, cached.quality) >>
                   /\ pending' = createTextStream(cached.text)
                   /\ pc' = "cached"
              ELSE /\ trace' = <<>>
                   /\ pending' = <<>>
                   /\ pc' = "ready"
  /\ reqCount' = reqCount + 1
  /\ idx' = 0
  /\ cursor' = 0
  /\ accumulated' = <<>>
  /\ highestProfile' = "economy"
  /\ minQualityScore' = 0
  /\ carryContext' = NoCarryContext
  /\ attempt' = NoAttempt
  /\ spans' = <<>>
  /\ lastRun' = history
  /\ UNCHANGED <<suspended, world, deployed>>

\* App.tsx passes a handler that stores the event in the component's state.
Request(modelId, elapsed) ==
  RequestWith(modelId, elapsed, "returns", Fresh(lastRun, now + elapsed))

\* The top of the candidate loop: profile-start, then the generation call (in
\* image mode after the span's preprocessing, whose failure is caught with it).
StartAttempt(i) ==
  << Event("profile-start", Candidates[i]),
     Call("generate", Candidates[i], modelForProfile(Candidates[i], req.modelId)) >>

\* The same for a page span, whose generation call carries the span's pages
\* and, in its prompt, the carry context.
StartSpanAttempt(i, span, carry) ==
  << Event("profile-start", Candidates[i]),
     [k |-> "call", what |-> "generate", profile |-> Candidates[i],
      model |-> modelForProfile(Candidates[i], req.modelId), pages |-> span,
      carry |-> carry] >>

\* a loop that starts the generation of the candidate after next along with it
NextAttemptAhead(i) ==
  (IF Mode = "pdf" THEN StartAttempt(i) ELSE StartSpanAttempt(i, SpanPages(cursor), carryContext))
    \o (IF i < Len(Candidates)
          THEN << Call("generate", Candidates[i + 1],
                       modelForProfile(Candidates[i + 1], req.modelId)) >>
          ELSE <<>>)

\* The next candidate's attempt at the same document or span.
NextAttempt(i) ==
  IF Mode = "pdf" THEN StartAttempt(i) ELSE StartSpanAttempt(i, SpanPages(cursor), carryContext)

\* The latest completed live run of each key.
Completed(cacheKey, text) ==
  [k \in DOMAIN lastRun \cup {cacheKey} |->
     IF k = cacheKey
       THEN [text |-> text, at |-> now, policy |-> deployed, by |-> req.number,
             stored |-> ~WriteFails]
       ELSE lastRun[k]]

\* while (cursor < images.length)
MoreSpansOffByOne(c) == c + 1 < Pages

MoreSpans(c) == c < Pages

\* a sequence that emits completed after each of its spans
SequenceStepCompletingSpans(tr, c, acc, hp, mq, carry) ==
  IF MoreSpans(c)
    THEN /\ trace' = StartSpanAttempt(1, SpanPages(c), carry)
         /\ spans' = IF tr = <<>> THEN spans
                     ELSE Append(spans, SpanSummary(tr \o << ScoreEvent("completed", hp, mq) >>))
         /\ idx' = 1
         /\ pc' = "generating"
         /\ minQualityScore' = mq
         /\ UNCHANGED <<cache, lastRun>>
    ELSE LET quality == IF acc = <<>> THEN 0 ELSE mq
             entry == [createdAt |-> now, text |-> acc, profile |-> hp,
                       quality |-> quality]
         IN  /\ trace' = tr \o << Write(req.cacheKey, entry, WriteFails),
                                  ScoreEvent("completed", hp, quality) >>
             /\ spans' = spans
             /\ idx' = idx
             /\ pc' = "done"
             /\ minQualityScore' = quality
             /\ cache' = writeCache(cache, req.cacheKey, entry, WriteFails)
             /\ lastRun' = Completed(req.cacheKey, acc)

\* analyzeImageSequenceStream, from the loop test `cursor < images.length` on:
\* the next span starts, or the sequence is cached and completed.
SequenceStep(tr, c, acc, hp, mq, carry) ==
  IF MoreSpans(c)
    THEN /\ trace' = StartSpanAttempt(1, SpanPages(c), carry)
         /\ spans' = IF tr = <<>> THEN spans ELSE Append(spans, SpanSummary(tr))
         /\ idx' = 1
         /\ pc' = "generating"
         /\ minQualityScore' = mq
         /\ UNCHANGED <<cache, lastRun>>
    ELSE LET quality == IF acc = <<>> THEN 0 ELSE mq
             entry == [createdAt |-> now, text |-> acc, profile |-> hp,
                       quality |-> quality]
         IN  /\ trace' = tr \o << Write(req.cacheKey, entry, WriteFails),
                                  ScoreEvent("completed", hp, quality) >>
             /\ spans' = spans
             /\ idx' = idx
             /\ pc' = "done"
             /\ minQualityScore' = quality
             /\ cache' = writeCache(cache, req.cacheKey, entry, WriteFails)
             /\ lastRun' = Completed(req.cacheKey, acc)

\* The consumer's first pull starts the body of the live generator.
Begin ==
  /\ pc = "ready"
  /\ IF Mode = "pdf"
       THEN /\ trace' = StartAttempt(1)
            /\ idx' = 1
            /\ pc' = "generating"
            /\ UNCHANGED <<cache, lastRun, highestProfile, minQualityScore, spans>>
       ELSE /\ highestProfile' = Candidates[1]
            /\ SequenceStep(<<>>, 0, <<>>, Candidates[1], InitialMinQualityScore,
                            NoCarryContext)
  /\ UNCHANGED <<suspended, world, now, deployed, reqCount, req, loops, cursor, accumulated,
                 carryContext, attempt, pending>>

\* catch, last candidate: the error is normalized and thrown to the consumer
normalizeError ==
  IF Mode = "pdf" THEN "Analysis failed: cause"
  ELSE "Image sequence analysis failed: cause"

FailLastCompleting ==
  /\ trace' = trace \o << Caught(Profile), ScoreEvent("completed", Profile, 0) >>
  /\ pc' = "done"
  /\ idx' = idx

FailLast ==
  /\ trace' = trace \o << Caught(Profile), Failure(normalizeError) >>
  /\ pc' = "failed"
  /\ idx' = idx

\* catch, another candidate left: profile-escalated, then the next iteration
FailEscalateScored ==
  /\ trace' = trace \o << Caught(Profile),
                           QualityEvent("profile-escalated", Profile, 0, <<>>, NoOpinion) >>
                     \o NextAttempt(idx + 1)
  /\ pc' = "generating"
  /\ idx' = idx + 1

FailEscalate ==
  /\ trace' = trace \o << Caught(Profile), Event("profile-escalated", Profile) >>
                     \o NextAttempt(idx + 1)
  /\ pc' = "generating"
  /\ idx' = idx + 1

\* The generation call (or, in image mode, the preprocessing before it) fails.
GenerationFails ==
  /\ pc = "generating"
  /\ IF IsLastProfile THEN FailLast ELSE FailEscalate
  /\ UNCHANGED <<suspended, world, cache, now, deployed, reqCount, req, loops, cursor, accumulated,
                 highestProfile, minQualityScore, carryContext, attempt, pending,
                 spans, lastRun>>

\* an accepted attempt whose failing cache write reaches the catch block
PdfAcceptThrowing(tr, text, assessment, verifierScore, qualityScore) ==
  LET rope == TextRope(text)
      entry == [createdAt |-> now, text |-> rope, profile |-> Profile,
                quality |-> qualityScore]
      chunks == createTextStream(rope)
      head == << Accepted(rope, Profile, qualityScore),
                 Write(req.cacheKey, entry, WriteFails),
                 QualityEvent("profile-accepted", Profile, qualityScore,
                              assessment.reasons, verifierScore) >>
  IN  /\ cache' = writeCache(cache, req.cacheKey, entry, WriteFails)
      /\ attempt' = [text |-> text, profile |-> Profile, assessment |-> assessment,
                     verifierScore |-> verifierScore, qualityScore |-> qualityScore]
      /\ IF WriteFails
           THEN /\ trace' = tr \o << Accepted(rope, Profile, qualityScore),
                                      Write(req.cacheKey, entry, WriteFails),
                                      Caught(Profile), Failure(normalizeError) >>
                /\ pending' = <<>>
                /\ pc' = "failed"
                /\ lastRun' = lastRun
           ELSE IF chunks = <<>>
           THEN /\ trace' = tr \o head
                              \o << QualityEvent("completed", Profile, qualityScore,
                                                 assessment.reasons, verifierScore) >>
                /\ pending' = <<>>
                /\ pc' = "done"
                /\ lastRun' = Completed(req.cacheKey, rope)
           ELSE /\ trace' = tr \o head \o << Yield(chunks[1]) >>
                /\ pending' = Tail(chunks)
                /\ pc' = "streaming"
                /\ lastRun' = lastRun
      /\ UNCHANGED <<idx, cursor, accumulated, highestProfile, minQualityScore,
                     carryContext, spans>>

\* analyzePdfStream, accepted attempt: cache write, profile-accepted, first chunk
PdfAccept(tr, text, assessment, verifierScore, qualityScore) ==
  LET rope == TextRope(text)
      entry == [createdAt |-> now, text |-> rope, profile |-> Profile,
                quality |-> qualityScore]
      chunks == createTextStream(rope)
      head == << Accepted(rope, Profile, qualityScore),
                 Write(req.cacheKey, entry, WriteFails),
                 QualityEvent("profile-accepted", Profile, qualityScore,
                              assessment.reasons, verifierScore) >>
  IN  /\ cache' = writeCache(cache, req.cacheKey, entry, WriteFails)
      /\ attempt' = [text |-> text, profile |-> Profile, assessment |-> assessment,
                     verifierScore |-> verifierScore, qualityScore |-> qualityScore]
      /\ IF chunks = <<>>
           THEN /\ trace' = tr \o head
                              \o << QualityEvent("completed", Profile, qualityScore,
                                                 assessment.reasons, verifierScore) >>
                /\ pending' = <<>>
                /\ pc' = "done"
                /\ lastRun' = Completed(req.cacheKey, rope)
           ELSE /\ trace' = tr \o head \o << Yield(chunks[1]) >>
                /\ pending' = Tail(chunks)
                /\ pc' = "streaming"
                /\ lastRun' = lastRun
      /\ UNCHANGED <<idx, cursor, accumulated, highestProfile, minQualityScore,
                     carryContext, spans>>

\* a fold that puts the separator before every span's text
ImageAcceptSeparating(tr, text, assessment, verifierScore, qualityScore) ==
  LET hp == maxProfile(highestProfile, Profile)
      mq == Min(minQualityScore, qualityScore)
      normalized == Trim(text)
      appendText == IF normalized # <<>>
                      THEN Concat(Separator, normalized)
                      ELSE <<>>
      head == << Accepted(normalized, Profile, qualityScore),
                 QualityEvent("profile-accepted", Profile, qualityScore,
                              assessment.reasons, verifierScore) >>
  IN  /\ highestProfile' = hp
      /\ attempt' = [text |-> text, profile |-> Profile, assessment |-> assessment,
                     verifierScore |-> verifierScore, qualityScore |-> qualityScore]
      /\ pending' = <<>>
      /\ IF appendText # <<>>
           THEN /\ accumulated' = Concat(accumulated, appendText)
                /\ trace' = tr \o head \o << Yield(appendText) >>
                /\ pc' = "yielded"
                /\ minQualityScore' = mq
                /\ UNCHANGED <<cursor, carryContext, cache, lastRun, idx, spans>>
           ELSE /\ accumulated' = accumulated
                /\ carryContext' = extractCarryContext(text,
                                     ProfilePolicies[Profile].carryContextChars)
                /\ cursor' = cursor + Consumed(cursor)
                /\ SequenceStep(tr \o head, cursor + Consumed(cursor), accumulated, hp, mq,
                             carryContext')

\* a fold that stores the text after every span
ImageAcceptCaching(tr, text, assessment, verifierScore, qualityScore) ==
  LET hp == maxProfile(highestProfile, Profile)
      mq == Min(minQualityScore, qualityScore)
      normalized == Trim(text)
      appendText == IF normalized # <<>>
                      THEN (IF accumulated # <<>> THEN Concat(Separator, normalized)
                            ELSE normalized)
                      ELSE <<>>
      head == << Accepted(normalized, Profile, qualityScore),
                 QualityEvent("profile-accepted", Profile, qualityScore,
                              assessment.reasons, verifierScore) >>
  IN  /\ highestProfile' = hp
      /\ attempt' = [text |-> text, profile |-> Profile, assessment |-> assessment,
                     verifierScore |-> verifierScore, qualityScore |-> qualityScore]
      /\ pending' = <<>>
      /\ IF appendText # <<>>
           THEN /\ accumulated' = Concat(accumulated, appendText)
                /\ trace' = tr \o head \o << Yield(appendText) >>
                /\ pc' = "yielded"
                /\ minQualityScore' = mq
                /\ cache' = writeCache(cache, req.cacheKey,
                                      [createdAt |-> now, text |-> Concat(accumulated, appendText),
                                       profile |-> hp, quality |-> mq], WriteFails)
                /\ UNCHANGED <<cursor, carryContext, lastRun, idx, spans>>
           ELSE /\ accumulated' = accumulated
                /\ carryContext' = extractCarryContext(text,
                                     ProfilePolicies[Profile].carryContextChars)
                /\ cursor' = cursor + Consumed(cursor)
                /\ SequenceStep(tr \o head, cursor + Consumed(cursor), accumulated, hp, mq,
                             carryContext')

\* a fold that keeps the score of the latest span
ImageAcceptLatestScore(tr, text, assessment, verifierScore, qualityScore) ==
  LET hp == maxProfile(highestProfile, Profile)
      mq == qualityScore
      normalized == Trim(text)
      appendText == IF normalized # <<>>
                      THEN (IF accumulated # <<>> THEN Concat(Separator, normalized)
                            ELSE normalized)
                      ELSE <<>>
      head == << Accepted(normalized, Profile, qualityScore),
                 QualityEvent("profile-accepted", Profile, qualityScore,
                              assessment.reasons, verifierScore) >>
  IN  /\ highestProfile' = hp
      /\ attempt' = [text |-> text, profile |-> Profile, assessment |-> assessment,
                     verifierScore |-> verifierScore, qualityScore |-> qualityScore]
      /\ pending' = <<>>
      /\ IF appendText # <<>>
           THEN /\ accumulated' = Concat(accumulated, appendText)
                /\ trace' = tr \o head \o << Yield(appendText) >>
                /\ pc' = "yielded"
                /\ minQualityScore' = mq
                /\ UNCHANGED <<cursor, carryContext, cache, lastRun, idx, spans>>
           ELSE /\ accumulated' = accumulated
                /\ carryContext' = extractCarryContext(text,
                                     ProfilePolicies[Profile].carryContextChars)
                /\ cursor' = cursor + Consumed(cursor)
                /\ SequenceStep(tr \o head, cursor + Consumed(cursor), accumulated, hp, mq,
                             carryContext')

\* resolveSpanWithEscalation returns an accepted span; analyzeImageSequenceStream
\* folds it in and yields its text, or goes straight on when there is none.
ImageAccept(tr, text, assessment, verifierScore, qualityScore) ==
  LET hp == maxProfile(highestProfile, Profile)
      mq == Min(minQualityScore, qualityScore)
      normalized == Trim(text)
      appendText == IF normalized # <<>>
                      THEN (IF accumulated # <<>> THEN Concat(Separator, normalized)
                            ELSE normalized)
                      ELSE <<>>
      head == << Accepted(normalized, Profile, qualityScore),
                 QualityEvent("profile-accepted", Profile, qualityScore,
                              assessment.reasons, verifierScore) >>
  IN  /\ highestProfile' = hp
      /\ attempt' = [text |-> text, profile |-> Profile, assessment |-> assessment,
                     verifierScore |-> verifierScore, qualityScore |-> qualityScore]
      /\ pending' = <<>>
      /\ IF appendText # <<>>
           THEN /\ accumulated' = Concat(accumulated, appendText)
                /\ trace' = tr \o head \o << Yield(appendText) >>
                /\ pc' = "yielded"
                /\ minQualityScore' = mq
                /\ UNCHANGED <<cursor, carryContext, cache, lastRun, idx, spans>>
           ELSE /\ accumulated' = accumulated
                /\ carryContext' = extractCarryContext(text,
                                     ProfilePolicies[Profile].carryContextChars)
                /\ cursor' = cursor + Consumed(cursor)
                /\ SequenceStep(tr \o head, cursor + Consumed(cursor), accumulated, hp, mq,
                             carryContext')

\* const accepted = qualityScore >= requiredScore || isLastProfile
acceptedWithoutForce(qualityScore, required, isLastProfile) ==
  qualityScore >= OnBlendScale(required)

acceptedAlways(qualityScore, required, isLastProfile) == TRUE

accepted(qualityScore, required, isLastProfile) ==
  qualityScore >= OnBlendScale(required) \/ isLastProfile

\* if (!accepted): profile-escalated with the score and reasons, then `continue`.
\* A loop that ran out of candidates ends the PDF generator, and throws in
\* resolveSpanWithEscalation.
EscalateYielding(tr, text, assessment, verifierScore, qualityScore) ==
  /\ trace' = tr \o << Rejected(TextRope(text), Profile, qualityScore),
                           Yield(TextRope(text)),
                           QualityEvent("profile-escalated", Profile, qualityScore,
                                        assessment.reasons, verifierScore) >>
                     \o NextAttempt(idx + 1)
  /\ idx' = idx + 1
  /\ pc' = "generating"
  /\ attempt' = NoAttempt
  /\ UNCHANGED <<cache, cursor, accumulated, highestProfile, minQualityScore,
                 carryContext, pending, spans, lastRun>>

\* a rejection that goes straight to the last candidate
EscalateSkipping(tr, text, assessment, verifierScore, qualityScore) ==
  LET shown == IF Mode = "pdf" THEN TextRope(text) ELSE Trim(text)
      effects == << Rejected(shown, Profile, qualityScore),
                    QualityEvent("profile-escalated", Profile, qualityScore,
                                 assessment.reasons, verifierScore) >>
  IN  /\ trace' = tr \o effects \o NextAttempt(Len(Candidates))
      /\ idx' = Len(Candidates)
      /\ pc' = "generating"
      /\ attempt' = NoAttempt
      /\ UNCHANGED <<cache, cursor, accumulated, highestProfile, minQualityScore,
                     carryContext, pending, spans, lastRun>>

\* a rejection whose text becomes the carry context
EscalateCarrying(tr, text, assessment, verifierScore, qualityScore) ==
  LET shown == IF Mode = "pdf" THEN TextRope(text) ELSE Trim(text)
      effects == << Rejected(shown, Profile, qualityScore),
                    QualityEvent("profile-escalated", Profile, qualityScore,
                                 assessment.reasons, verifierScore) >>
  IN  /\ trace' = tr \o effects \o NextAttempt(idx + 1)
      /\ idx' = idx + 1
      /\ pc' = "generating"
      /\ attempt' = NoAttempt
      /\ carryContext' = extractCarryContext(text, ProfilePolicies[Profile].carryContextChars)
      /\ UNCHANGED <<cache, cursor, accumulated, highestProfile, minQualityScore,
                     pending, spans, lastRun>>

\* a rejection that is thrown to the caller
EscalateThrowing(tr, text, assessment, verifierScore, qualityScore) ==
  LET shown == IF Mode = "pdf" THEN TextRope(text) ELSE Trim(text)
  IN  /\ trace' = tr \o << Rejected(shown, Profile, qualityScore),
                            Failure("Quality signal is low") >>
      /\ idx' = idx
      /\ pc' = "failed"
      /\ attempt' = NoAttempt
      /\ UNCHANGED <<cache, cursor, accumulated, highestProfile, minQualityScore,
                     carryContext, pending, spans, lastRun>>

Escalate(tr, text, assessment, verifierScore, qualityScore) ==
  LET shown == IF Mode = "pdf" THEN TextRope(text) ELSE Trim(text)
      effects == << Rejected(shown, Profile, qualityScore),
                    QualityEvent("profile-escalated", Profile, qualityScore,
                                 assessment.reasons, verifierScore) >>
  IN  /\ IF idx < Len(Candidates)
           THEN /\ trace' = tr \o effects \o NextAttempt(idx + 1)
                /\ idx' = idx + 1
                /\ pc' = "generating"
           ELSE /\ trace' = tr \o effects
                              \o (IF Mode = "pdf" THEN <<>>
                                  ELSE << Failure("Could not resolve span") >>)
                /\ idx' = idx
                /\ pc' = IF Mode = "pdf" THEN "done" ELSE "failed"
      /\ attempt' = NoAttempt
      /\ UNCHANGED <<cache, cursor, accumulated, highestProfile, minQualityScore,
                     carryContext, pending, spans, lastRun>>

\* The handlers a caller may pass: none, one that returns, and one that throws
\* when it is told of an accepted profile.
Observers == {"none", "returns", "throws"}

\* emit: if (handler) handler(event)
emit(handler, event) ==
  IF handler = "throws" /\ event.type = "profile-accepted" THEN "thrown" ELSE "returned"

\* The profile-accepted emit throws inside the attempt's try block: the catch
\* block takes it for a failed attempt.  The PDF cache write came before it;
\* the image sequence has not yet folded the span in.
AcceptedEmitThrows(tr, text, assessment, verifierScore, qualityScore) ==
  LET event == QualityEvent("profile-accepted", Profile, qualityScore,
                            assessment.reasons, verifierScore)
      entry == [createdAt |-> now, text |-> TextRope(text), profile |-> Profile,
                quality |-> qualityScore]
      head == IF Mode = "pdf"
                THEN << Accepted(TextRope(text), Profile, qualityScore),
                        Write(req.cacheKey, entry, WriteFails), event, Caught(Profile) >>
                ELSE << Accepted(Trim(text), Profile, qualityScore), event,
                        Caught(Profile) >>
  IN  /\ cache' = IF Mode = "pdf" THEN writeCache(cache, req.cacheKey, entry, WriteFails)
                  ELSE cache
      /\ IF IsLastProfile
           THEN /\ trace' = tr \o head \o << Failure(normalizeError) >>
                /\ idx' = idx
                /\ pc' = "failed"
           ELSE /\ trace' = tr \o head \o << Event("profile-escalated", Profile) >>
                              \o NextAttempt(idx + 1)
                /\ idx' = idx + 1
                /\ pc' = "generating"
      /\ attempt' = NoAttempt
      /\ UNCHANGED <<cursor, accumulated, highestProfile, minQualityScore,
                     carryContext, pending, spans, lastRun>>

\* The accept/escalate decision of an attempt whose text is complete.
Decide(tr, text, assessment, verifierScore) ==
  LET required == IF Mode = "pdf" THEN requiredPdfScore(Profile)
                  ELSE requiredImageScore(Profile)
      qualityScore == blendScore(assessment.score, verifierScore)
      scored == tr \o << Scored(text, Profile, assessment.score, verifierScore,
                                 qualityScore) >>
  IN  IF accepted(qualityScore, required, IsLastProfile)
        THEN IF emit(req.onEvent, Event("profile-accepted", Profile)) = "thrown"
               THEN AcceptedEmitThrows(scored, text, assessment, verifierScore,
                                       qualityScore)
             ELSE IF Mode = "pdf"
               THEN PdfAccept(scored, text, assessment, verifierScore, qualityScore)
               ELSE ImageAccept(scored, text, assessment, verifierScore, qualityScore)
        ELSE Escalate(scored, text, assessment, verifierScore, qualityScore)

\* a heuristic whose regular expression keeps its position from call to call:
\* every second request it misses the headings and tables
evaluateQualityRemembering(text) ==
  LET measured == IF Mode = "pdf" THEN evaluateQualityPdf(text)
                  ELSE evaluateQualityImage(text)
  IN  IF reqCount % 2 = 1 THEN measured
      ELSE [measured EXCEPT !.score = Max(0, @ - 600)]

evaluateQuality(text) ==
  IF Mode = "pdf" THEN evaluateQualityPdf(text) ELSE evaluateQualityImage(text)

\* needsVerifier
needsVerifier(score) ==
  IF Mode = "pdf" THEN score < requiredPdfScore(Profile) + 1200
  ELSE score < requiredImageScore(Profile) + 1000

\* a verifier that sends every text to the inference service
answeredLocallyNever(text) == FALSE

\* runQualityVerifier: if (text.trim().length < 60) return 0
answeredLocally(text) == TrimmedLength(text) < 60

\* The streamed generation completes with the text of an attempt.  The
\* verifier is then skipped, answered locally for a short text, or called.
GenerationReturns(kind) ==
  /\ pc = "generating"
  /\ LET text == [id |-> <<req.number, cursor + 1, idx>>, kind |-> kind]
         assessment == evaluateQuality(text)
     IN  IF ~needsVerifier(assessment.score)
           THEN Decide(trace, text, assessment, NoOpinion)
         ELSE IF answeredLocally(text)
           THEN Decide(trace, text, assessment, 0)
         ELSE /\ trace' = trace \o << Call("verify", Profile,
                                           modelForProfile(Profile, req.modelId)) >>
              /\ attempt' = [text |-> text, profile |-> Profile,
                             assessment |-> assessment, verifierScore |-> NoOpinion,
                             qualityScore |-> 0]
              /\ pc' = "verifying"
              /\ UNCHANGED <<cache, idx, cursor, accumulated, highestProfile,
                             minQualityScore, carryContext, pending, spans, lastRun>>
  /\ UNCHANGED <<suspended, world, now, deployed, reqCount, req, loops>>

\* a verifier whose failures count as the score 0
verifierResultZeroOnFailure(reply) == IF reply.kind = "score" THEN reply.score ELSE 0

\* runQualityVerifier's call returns or throws; parseVerifierScore's result
verifierResult(reply) == IF reply.kind = "score" THEN reply.score ELSE NoOpinion

VerifierReturns(reply) ==
  /\ pc = "verifying"
  /\ Decide(trace \o << Returned(reply) >>, attempt.text, attempt.assessment,
            verifierResult(reply))
  /\ UNCHANGED <<suspended, world, now, deployed, reqCount, req, loops>>

\* The consumer pulls again from a live PDF stream: the next chunk, or the
\* completed event and the end of the stream.
PullPdf ==
  /\ pc = "streaming"
  /\ IF pending # <<>>
       THEN /\ trace' = trace \o << Yield(Head(pending)) >>
            /\ pending' = Tail(pending)
            /\ pc' = "streaming"
            /\ lastRun' = lastRun
       ELSE /\ trace' = trace \o << QualityEvent("completed", attempt.profile,
                                         attempt.qualityScore, attempt.assessment.reasons,
                                         attempt.verifierScore) >>
            /\ pending' = <<>>
            /\ pc' = "done"
            /\ lastRun' = Completed(req.cacheKey, TextRope(attempt.text))
  /\ UNCHANGED <<suspended, world, cache, now, deployed, reqCount, req, loops, idx, cursor,
                 accumulated, highestProfile, minQualityScore, carryContext, attempt,
                 spans>>

\* The consumer pulls again after a span's chunk: carry context, cursor, and
\* the next span or the end of the sequence.
PullImage ==
  /\ pc = "yielded"
  /\ carryContext' = extractCarryContext(attempt.text,
                       ProfilePolicies[attempt.profile].carryContextChars)
  /\ cursor' = cursor + Consumed(cursor)
  /\ SequenceStep(trace, cursor + Consumed(cursor), accumulated, highestProfile,
                  minQualityScore, carryContext')
  /\ UNCHANGED <<suspended, world, now, deployed, reqCount, req, loops, accumulated,
                 highestProfile, attempt, pending>>

\* The consumer pulls from the stream of a cached text.
PullCached ==
  /\ pc = "cached"
  /\ IF pending # <<>>
       THEN /\ trace' = trace \o << Yield(Head(pending)) >>
            /\ pending' = Tail(pending)
            /\ pc' = "cached"
       ELSE /\ trace' = trace
            /\ pending' = <<>>
            /\ pc' = "done"
  /\ UNCHANGED <<suspended, world, cache, now, deployed, reqCount, req, loops, idx, cursor,
                 accumulated, highestProfile, minQualityScore, carryContext, attempt,
                 spans, lastRun>>

Next ==
  \/ Upgrade
  \/ \E modelId \in Overrides, elapsed \in Elapsed : Request(modelId, elapsed)
  \/ Begin
  \/ GenerationFails
  \/ \E kind \in TextKinds : GenerationReturns(kind)
  \/ \E reply \in VerifierReplies : VerifierReturns(reply)
  \/ PullPdf
  \/ PullImage
  \/ PullCached

Spec == Init /\ [][Next]_vars

----------------------------------------------------------------------------
(* The pure functions on their own: a text is drawn, then a function is     *)
(* applied to it as the services apply it.                                 *)

MaxProbeLines == 5

\* Lines a text may be made of: two headings, a table row, prose, a blank line.
ProbeLineKinds ==
  { [src |-> "# Title", from |-> 0, to |-> 12, heading |-> TRUE, table |-> FALSE],
    [src |-> "## Section", from |-> 0, to |-> 20, heading |-> TRUE, table |-> FALSE],
    [src |-> "| a | b |", from |-> 0, to |-> 30, heading |-> FALSE, table |-> TRUE],
    [src |-> "prose", from |-> 0, to |-> 50, heading |-> FALSE, table |-> FALSE],
    [src |-> "", from |-> 0, to |-> 0, heading |-> FALSE, table |-> FALSE] }

LineProbes ==
  { [id |-> <<0, 0, 2>>, kind |-> "lines", lines |-> ls] :
      ls \in UNION { [1..n -> ProbeLineKinds] : n \in 0..MaxProbeLines } }

\* Some text has these measurements: every run they count fits, apart from
\* the others, in the trimmed text.
Realisable(f) ==
  LET trimmed == f.len - f.lead - f.trail
      longLines == f.lines - f.shortLines
  IN  /\ trimmed >= 0
      /\ (f.lines = 0) = (trimmed = 0)
      /\ f.shortLines <= f.lines
      /\ f.headings + f.tableLines <= longLines
      /\ longLines = 0 => f.blobs + f.longTokens + f.bursts = 0 /\ trimmed <= 3 * f.lines
      /\ (2 * f.unreadable) + (2 * f.placeholder) + (6 * f.blobs) + (36 * f.longTokens)
           + (9 * f.bursts) + (2 * f.shortLines) + (4 * longLines) <= trimmed + 1

\* Every rate of the heuristic is a whole number of basis points.
ExactRates(f) ==
  LET chars == Max(f.len - f.cr, 1)
  IN  /\ (f.unreadable * 22000) % chars = 0
      /\ (f.unreadable * 23000) % chars = 0
      /\ (f.placeholder * 6000) % chars = 0
      /\ (f.placeholder * 6500) % chars = 0
      /\ f.lines > 0 => (f.shortLines * 100) % f.lines = 0

ProbeFeatures ==
  { f \in [len : {0, 3, 100, 2000}, lead : {0, 3, 30}, trail : {0}, cr : {0},
           lines : {0, 10, 35, 50}, shortLines : {0, 4, 10, 35, 50},
           headings : {0, 1}, tableLines : {0},
           unreadable : {0, 2, 40, 900}, placeholder : {0, 4, 40},
           blobs : {0, 4, 10}, longTokens : {0, 4, 12}, bursts : {0, 2, 8}] :
      Realisable(f) /\ ExactRates(f) }

FeatureProbes ==
  { [id |-> <<0, 0, 3>>, kind |-> "measured", features |-> f] : f \in ProbeFeatures }

\* Policy tables that declare another carry-context budget for economy.
BudgetPolicies ==
  { [SourcePolicy EXCEPT !.profilePolicies.economy.carryContextChars = n] :
      n \in {0, 1, 60, 240} }

ProbeWorlds ==
  { [mode |-> "pdf", input |-> CHOOSE d \in PdfDocs : d.len = 4194304, storage |-> "ok"],
    [mode |-> "image", input |-> ImageSequence(1), storage |-> "ok"] }

ProbeInit ==
  /\ world \in ProbeWorlds
  /\ attempt \in { [NoAttempt EXCEPT !.text = t] : t \in FeatureProbes \cup LineProbes }
  /\ deployed \in BudgetPolicies
  /\ "features" \in DOMAIN attempt.text => deployed = SourcePolicy
  /\ "lines" \in DOMAIN attempt.text => Mode = "image"
  /\ cache = EmptyStore
  /\ now = 1
  /\ loops = 0
  /\ reqCount = 0
  /\ req = NoRequest
  /\ pc = "idle"
  /\ idx = 0
  /\ cursor = 0
  /\ accumulated = <<>>
  /\ highestProfile = "economy"
  /\ minQualityScore = 0
  /\ carryContext = NoCarryContext
  /\ pending = <<>>
  /\ trace = <<>>
  /\ spans = <<>>
  /\ lastRun = EmptyStore
  /\ suspended = NotStarted

\* evaluateQuality(text) of the service of this mode
Measure ==
  /\ pc = "idle"
  /\ attempt' = [attempt EXCEPT !.assessment = evaluateQuality(attempt.text)]
  /\ pc' = "measured"
  /\ UNCHANGED <<suspended, world, cache, now, deployed, reqCount, req, loops, idx, cursor,
                 accumulated, highestProfile, minQualityScore, carryContext, pending,
                 trace, spans, lastRun>>

\* extractCarryContext(normalized, OCR_PROFILE_POLICIES[profile].carryContextChars)
Extract ==
  /\ pc = "idle"
  /\ Mode = "image"
  /\ carryContext' = extractCarryContext(attempt.text,
                       ProfilePolicies[attempt.profile].carryContextChars)
  /\ pc' = "extracted"
  /\ UNCHANGED <<suspended, world, cache, now, deployed, reqCount, req, loops, idx, cursor,
                 accumulated, highestProfile, minQualityScore, attempt, pending,
                 trace, spans, lastRun>>

ProbeNext == Measure \/ Extract

ProbeSpec == ProbeInit /\ [][ProbeNext]_vars

-----------------------------------------------------------------------------
(* Two runs of one request, the second given the responses of the first *)

\* The storage takes no writes, so that the second run starts from the cache
\* state of the first; the image sequences have one span, whose effects the
\* trace holds whole.
TwinWorlds ==
  {w \in Worlds : w.storage = "full" /\ (w.mode = "image" => Len(w.input) = 1)}

TwinInit == Init /\ world \in TwinWorlds

\* What is kept of the first run when the second starts.
Recorded == [trace |-> trace, pc |-> pc, cache |-> cache, onEvent |-> req.onEvent]

\* The key it is kept under in the history of runs.
FirstKey == <<"first">>

FirstRun == lastRun[FirstKey]

Replaying == reqCount = 2

\* The first request, from a caller with or without a handler.
First(modelId, onEvent) ==
  /\ reqCount = 0
  /\ RequestWith(modelId, 0, onEvent, lastRun)

\* The same request again, later, with any handler.
Again(onEvent) ==
  /\ reqCount = 1
  /\ pc \in {"done", "failed"}
  /\ RequestWith(req.modelId, 1, onEvent, [r \in {FirstKey} |-> Recorded])

IsGenerate(e) == e.k = "call" /\ e.what = "generate"

GenerateCalls(tr) == {j \in 1..Len(tr) : IsGenerate(tr[j])}

\* The effects of the i-th attempt of a trace: from its generation call up to
\* the next one.
AttemptOf(tr, i) ==
  LET calls == GenerateCalls(tr)
      StartOf(n) == CHOOSE j \in calls : Cardinality({m \in calls : m <= j}) = n
  IN  IF Cardinality(calls) < i THEN <<>>
      ELSE SubSeq(tr, StartOf(i),
                  IF Cardinality(calls) > i THEN StartOf(i + 1) - 1 ELSE Len(tr))

\* The external responses the first run's i-th attempt was given.
Failed(i) == Entries(AttemptOf(FirstRun.trace, i), "caught") # <<>>

ReturnedText(i, kind) ==
  \E j \in DOMAIN AttemptOf(FirstRun.trace, i) :
    LET e == AttemptOf(FirstRun.trace, i)[j]
    IN  e.k = "scored" /\ e.text.kind = kind

Replied(i, reply) == Entries(AttemptOf(FirstRun.trace, i), "reply") = << Returned(reply) >>

\* The second run's inference calls are answered as the first run's were.
ReplayFails ==
  /\ pc = "generating"
  /\ Replaying => Failed(idx)
  /\ GenerationFails

ReplayReturns(kind) ==
  /\ pc = "generating"
  /\ Replaying => ReturnedText(idx, kind)
  /\ GenerationReturns(kind)

ReplayVerifierReturns(reply) ==
  /\ pc = "verifying"
  /\ Replaying => Replied(idx, reply)
  /\ VerifierReturns(reply)

TwinNext ==
  \/ \E modelId \in Overrides, onEvent \in {"none", "returns"} : First(modelId, onEvent)
  \/ \E onEvent \in Observers : Again(onEvent)
  \/ Begin
  \/ ReplayFails
  \/ \E kind \in TextKinds : ReplayReturns(kind)
  \/ \E reply \in VerifierReplies : ReplayVerifierReturns(reply)
  \/ PullPdf
  \/ PullImage

TwinSpec == TwinInit /\ [][TwinNext]_vars

-----------------------------------------------------------------------------
(* Two documents analysed one after the other, payloads given character by *)
(* character                                                               *)

\* A payload of 3 MB, as the runs of characters it is made of: the header, the
\* objects, the page in the middle, the streams and the trailer.
Payload(header, objects, page, streams, trailer) ==
  LET content == << [src |-> header, from |-> 0, to |-> 600],
                    [src |-> objects, from |-> 0, to |-> 2096196],
                    [src |-> page, from |-> 0, to |-> 700],
                    [src |-> streams, from |-> 0, to |-> 2096208],
                    [src |-> trailer, from |-> 0, to |-> 600] >>
  IN  [len |-> RopeLen(content), content |-> content]

FirstPayload == Payload("JVBERi0x", "b2JqZWN0", "c21hbGw", "c3RyZWFt", "RU9GCg")

\* Payloads of the same length that differ from the first in one run of
\* characters: before the sample in the middle, after it, or inside it.
SampledPayloads ==
  { FirstPayload,
    Payload("JVBERi0x", "T0JKRUNU", "c21hbGw", "c3RyZWFt", "RU9GCg"),
    Payload("JVBERi0x", "b2JqZWN0", "c21hbGw", "U1RSRUFN", "RU9GCg"),
    Payload("JVBERi0x", "b2JqZWN0", "U01BTEw", "c3RyZWFt", "RU9GCg") }

SampleInit == InitIn([mode |-> "pdf", input |-> FirstPayload, storage |-> "ok"])

\* App.tsx handleFileSelect: the user picks another document once the first
\* has been analysed.
SelectFile(file) ==
  /\ ~InProgress
  /\ reqCount = 1
  /\ world.input # file
  /\ world' = [world EXCEPT !.input = file]
  /\ UNCHANGED <<suspended, cache, now, deployed, reqCount, req, loops, pc, idx, cursor,
                 accumulated, highestProfile, minQualityScore, carryContext, attempt,
                 pending, trace, spans, lastRun>>

SampleNext ==
  \/ \E file \in SampledPayloads : SelectFile(file)
  \/ Upgrade
  \/ \E modelId \in Overrides, elapsed \in Elapsed : Request(modelId, elapsed)
  \/ Begin
  \/ GenerationFails
  \/ \E kind \in TextKinds : GenerationReturns(kind)
  \/ \E reply \in VerifierReplies : VerifierReturns(reply)
  \/ PullPdf
  \/ PullCached

SampleSpec == SampleInit /\ [][SampleNext]_vars

-----------------------------------------------------------------------------
(* The page around a PDF analysis: what App.tsx shows while the user acts  *)

\* The user actions of a behaviour that clear the displayed result.
MaxResets == 2

\* setError(null); setResult(''): the state updates shared by the mode buttons
\* and handleAddImages, recorded in the order they reach the page.
Reset(by) == [k |-> "reset", by |-> by]

Resets(tr) == Entries(tr, "reset")

\* The mode switcher's onClick; the two buttons are never disabled.
SwitchMode(mode) ==
  /\ reqCount > 0
  /\ Len(Resets(trace)) < MaxResets
  /\ trace' = trace \o << Reset(mode) >>
  /\ UNCHANGED <<suspended, world, cache, now, deployed, reqCount, req, loops, pc, idx, cursor,
                 accumulated, highestProfile, minQualityScore, carryContext, attempt,
                 pending, spans, lastRun>>

\* ImageUploader processFiles, begun on the image tab before the analysis was
\* started, has read its files: onImagesSelected calls handleAddImages.
handleAddImages ==
  /\ reqCount > 0
  /\ Len(Resets(trace)) < MaxResets
  /\ trace' = trace \o << Reset("images") >>
  /\ UNCHANGED <<suspended, world, cache, now, deployed, reqCount, req, loops, pc, idx, cursor,
                 accumulated, highestProfile, minQualityScore, carryContext, attempt,
                 pending, spans, lastRun>>

\* The result state after the updates of a trace: setResult('') empties it,
\* setResult(prev => prev + chunk.text) appends a chunk.
RECURSIVE resultAfter(_, _)
resultAfter(prev, tr) ==
  IF tr = <<>> THEN prev
  ELSE resultAfter(IF Head(tr).k = "reset" THEN <<>>
                   ELSE IF Head(tr).k = "yield" THEN Concat(prev, Head(tr).text)
                   ELSE prev,
                   Tail(tr))

result == resultAfter(<<>>, trace)

\* setIsAnalyzing(true) before the call, setIsAnalyzing(false) in finally
isAnalyzing == InProgress

\* The error state: set in the catch block, cleared by the same user actions.
RECURSIVE errorAfter(_, _)
errorAfter(prev, tr) ==
  IF tr = <<>> THEN prev
  ELSE errorAfter(IF Head(tr).k = "reset" THEN "null"
                  ELSE IF Head(tr).k = "error" THEN Head(tr).message
                  ELSE prev,
                  Tail(tr))

error == errorAfter("null", trace)

UiInit == Init /\ world.mode = "pdf" /\ world.input.len = 4194304

UiNext ==
  \/ \E mode \in {"pdf", "batch-image"} : SwitchMode(mode)
  \/ handleAddImages
  \/ \E modelId \in {"none"}, elapsed \in Elapsed : Request(modelId, elapsed)
  \/ Begin
  \/ GenerationFails
  \/ \E kind \in TextKinds : GenerationReturns(kind)
  \/ \E reply \in VerifierReplies : VerifierReturns(reply)
  \/ PullPdf
  \/ PullCached

UiSpec == UiInit /\ [][UiNext]_vars

-----------------------------------------------------------------------------
(* Two analysis requests interleaved at their suspension points            *)

\* The locals of the call that is running.
Locals ==
  [req |-> req, pc |-> pc, idx |-> idx, cursor |-> cursor, accumulated |-> accumulated,
   highestProfile |-> highestProfile, minQualityScore |-> minQualityScore,
   carryContext |-> carryContext, attempt |-> attempt, pending |-> pending,
   trace |-> trace, spans |-> spans]

\* an event loop over calls that keep the assembled text and the quality
\* floor in variables of the module
SwitchSharing ==
  /\ suspended # Locals
  /\ suspended' = Locals
  /\ req' = suspended.req
  /\ pc' = suspended.pc
  /\ idx' = suspended.idx
  /\ cursor' = suspended.cursor
  /\ accumulated' = accumulated
  /\ highestProfile' = suspended.highestProfile
  /\ minQualityScore' = minQualityScore
  /\ carryContext' = suspended.carryContext
  /\ attempt' = suspended.attempt
  /\ pending' = suspended.pending
  /\ trace' = suspended.trace
  /\ spans' = suspended.spans
  /\ UNCHANGED <<world, cache, now, deployed, reqCount, loops, lastRun>>

\* The running call waits at an await or a yield and the event loop resumes
\* the other call, or the caller, who may then issue a request: each call has
\* its own locals, the storage and the clock are those of the page.
Switch ==
  /\ suspended # Locals
  /\ suspended' = Locals
  /\ req' = suspended.req
  /\ pc' = suspended.pc
  /\ idx' = suspended.idx
  /\ cursor' = suspended.cursor
  /\ accumulated' = suspended.accumulated
  /\ highestProfile' = suspended.highestProfile
  /\ minQualityScore' = suspended.minQualityScore
  /\ carryContext' = suspended.carryContext
  /\ attempt' = suspended.attempt
  /\ pending' = suspended.pending
  /\ trace' = suspended.trace
  /\ spans' = suspended.spans
  /\ UNCHANGED <<world, cache, now, deployed, reqCount, loops, lastRun>>

\* One document per mode, in a storage that takes writes.
ConcurrentWorlds ==
  { w \in Worlds : /\ w.storage = "ok"
                   /\ w.mode = "pdf" => w.input.len = 4194304
                   /\ w.mode = "image" => Len(w.input) = 1 }

ConcurrentInit == Init /\ world \in ConcurrentWorlds

\* The milliseconds between two requests made one upon the other.
Apart == {1}

\* A step of the running call.
Step ==
  \/ Begin
  \/ GenerationFails
  \/ \E kind \in TextKinds : GenerationReturns(kind)
  \/ \E reply \in VerifierReplies : VerifierReturns(reply)
  \/ PullPdf
  \/ PullImage
  \/ PullCached

ConcurrentNext ==
  \/ Switch
  \/ \E elapsed \in Apart : Request("none", elapsed)
  \/ Begin
  \/ GenerationFails
  \/ \E kind \in TextKinds : GenerationReturns(kind)
  \/ \E reply \in VerifierReplies : VerifierReturns(reply)
  \/ PullPdf
  \/ PullImage
  \/ PullCached

ConcurrentSpec == ConcurrentInit /\ [][ConcurrentNext]_vars

----------------------------------------------------------------------------
(* Reading a run: the spans already folded in and the trace of the current *)
(* one.                                                                    *)

\* the store holds an entry a lookup can read under the key
HoldsEntry(k) == k \in DOMAIN cache /\ Parses(cache[k])

RECURSIVE Flatten(_)
Flatten(seqs) == IF seqs = <<>> THEN <<>> ELSE seqs[1] \o Flatten(Tail(seqs))

NonDecreasing(profiles) ==
  \A i \in 1..(Len(profiles) - 1) :
    ProfileIndex(profiles[i]) <= ProfileIndex(profiles[i + 1])

\* the profiles of the run's profile-start events, in order of emission
ProfileStarts ==
  Flatten([i \in 1..Len(spans) |-> spans[i].starts])
    \o ProfilesOf(Events(trace, "profile-start"))

\* the chunks the consumer has received, in order
Chunks ==
  Flatten([i \in 1..Len(spans) |-> spans[i].yielded]) \o TextsOf(Entries(trace, "yield"))

AcceptedCount == Len(spans) + Len(Entries(trace, "accepted"))

CaughtCount == Len(Entries(trace, "caught"))

Has(tr, kind) == \E j \in 1..Len(tr) : tr[j].k = kind

HasEvent(tr, type) == \E j \in 1..Len(tr) : tr[j].k = "event" /\ tr[j].type = type

IsEvent(e, type, profile) == e.k = "event" /\ e.type = type /\ e.profile = profile

\* The policy table has not been replaced since the request was made.
RunPolicyCurrent == reqCount > 0 /\ req.cacheKey[4] = PolicyHash

Required(profile) ==
  OnBlendScale(IF Mode = "pdf" THEN requiredPdfScore(profile)
               ELSE requiredImageScore(profile))

LastCandidate == Candidates[Len(Candidates)]

Live == req.lookup \in {"miss", "expired", "failed"}

----------------------------------------------------------------------------
\* What one step of the escalation loop may do.
LoopStep ==
  pc \in {"generating", "verifying"} =>
    \/ pc = "generating" /\ pc' = "verifying" /\ idx' = idx
         /\ AcceptedCount' = AcceptedCount
    \/ AcceptedCount' = AcceptedCount + 1 /\ pc' # "failed"
    \/ /\ idx' = idx + 1
       /\ idx' <= Len(Candidates)
       /\ pc' = "generating"
       /\ AcceptedCount' = AcceptedCount
    \/ CaughtCount' = CaughtCount + 1 /\ IsLastProfile /\ pc' = "failed"

(* C1  Forced acceptance and termination: a step of the escalation loop    *)
(* (a PDF run's, or a page span's) either hands the attempt to the         *)
(* verifier, accepts it, moves to the next candidate of the list, or ends  *)
(* the run on a transport error; so when no call fails the loop ends,      *)
(* after at most one attempt per candidate, with an accepted attempt, and  *)
(* the last candidate is accepted whatever its score.                      *)
C1_ForcedAcceptance == [][LoopStep]_vars

\* the last candidate has been accepted below its required score
C1_ForcedWitness ==
  /\ RunPolicyCurrent
  /\ \E j \in 1..Len(trace) :
       /\ trace[j].k = "accepted"
       /\ trace[j].profile = LastCandidate
       /\ trace[j].qualityScore < Required(trace[j].profile)
  /\ ~Has(trace, "caught")

----------------------------------------------------------------------------
(* C2  Escalation monotonicity, as stated: the profiles of all the         *)
(* profile-start events of one run are non-decreasing.                     *)
C2_RunMonotone == NonDecreasing(ProfileStarts)

(* C2, amended: the profile-start events of a PDF run, and those of each   *)
(* page span of an image-sequence run, are non-decreasing (each span       *)
(* starts again from the first candidate).                                 *)
C2_SpanMonotone ==
  /\ NonDecreasing(ProfilesOf(Events(trace, "profile-start")))
  /\ \A i \in 1..Len(spans) : NonDecreasing(spans[i].starts)
  /\ Mode = "pdf" => spans = <<>>

\* two spans that both escalated
C2_EscalatedTwice ==
  /\ Len(spans) = 1
  /\ Len(spans[1].starts) >= 2
  /\ Len(Events(trace, "profile-start")) >= 2

----------------------------------------------------------------------------
----------------------------------------------------------------------------
----------------------------------------------------------------------------
(* C5  Cache invalidation by policy: a request is never answered from an   *)
(* entry stored under another policy; the key of a run made under another  *)
(* policy differs from every key of the current policy for the same input  *)
(* and prompt.                                                             *)
C5_PolicyInvalidates ==
  /\ (InProgress /\ req.lookup = "hit") => lastRun[req.cacheKey].policy = deployed
  /\ \A k \in DOMAIN lastRun :
       lastRun[k].policy # deployed =>
         \A modelId \in Overrides :
           k # buildCacheKey(Mode, world.input, Prompt(Mode), modelId)

\* a request under the altered policy has missed although the entry of the
\* old policy is stored and fresh
C5_MissAfterUpgrade ==
  /\ pc = "ready"
  /\ deployed = AlteredPolicy
  /\ req.lookup = "miss"
  /\ \E k \in DOMAIN cache : Parses(cache[k]) /\ ~Expired(cache[k], now) /\ lastRun[k].policy = SourcePolicy

----------------------------------------------------------------------------
CandidateIndex(profile) ==
  CHOOSE i \in 1..Len(Candidates) : Candidates[i] = profile

(* C6  Acceptance rule: an attempt whose generation succeeded is accepted  *)
(* exactly when its effective score reaches the profile's required score   *)
(* or the profile is the last candidate; a rejected attempt is followed by *)
(* a profile-escalated event with its score and reasons and by the start   *)
(* of the next candidate.                                                  *)
C6_AcceptanceRule ==
  (RunPolicyCurrent /\ Live) =>
    /\ \A j \in 1..Len(trace) :
         /\ trace[j].k = "accepted" =>
              \/ trace[j].qualityScore >= Required(trace[j].profile)
              \/ trace[j].profile = LastCandidate
         /\ trace[j].k = "rejected" =>
              /\ trace[j].qualityScore < Required(trace[j].profile)
              /\ trace[j].profile # LastCandidate
              /\ j + 2 <= Len(trace)
              /\ IsEvent(trace[j + 1], "profile-escalated", trace[j].profile)
              /\ {"qualityScore", "reasons"} \subseteq DOMAIN trace[j + 1]
              /\ trace[j + 1].qualityScore = trace[j].qualityScore
              /\ trace[j + 1].reasons # <<>>
              /\ IsEvent(trace[j + 2], "profile-start",
                         Candidates[CandidateIndex(trace[j].profile) + 1])
    /\ \A i \in 1..Len(spans) :
         \/ spans[i].qualityScore >= Required(spans[i].profile)
         \/ spans[i].profile = LastCandidate

\* one attempt rejected on its score, a later one accepted on its score
C6_RejectedThenAccepted ==
  /\ RunPolicyCurrent /\ Live
  /\ Has(trace, "rejected")
  /\ \E j \in 1..Len(trace) :
       /\ trace[j].k = "accepted"
       /\ trace[j].profile # LastCandidate
       /\ trace[j].qualityScore < OnBlendScale(BP)

----------------------------------------------------------------------------
(* C7  A transport failure on a candidate that is not the last one does    *)
(* not end the run: one profile-escalated event for that profile follows,  *)
(* without qualityScore, reasons or verificationScore, and then the next   *)
(* candidate is started.                                                   *)
C7_FailureEscalates ==
  Live =>
    \A j \in 1..Len(trace) :
      (trace[j].k = "caught" /\ trace[j].profile # LastCandidate) =>
        /\ j + 2 <= Len(trace)
        /\ trace[j + 1] = Event("profile-escalated", trace[j].profile)
        /\ Len(SelectSeq(trace, LAMBDA e :
                 IsEvent(e, "profile-escalated", trace[j].profile))) = 1
        /\ IsEvent(trace[j + 2], "profile-start",
                   Candidates[CandidateIndex(trace[j].profile) + 1])

\* a run completed after a failure on an earlier candidate
C7_CompletedAfterFailure ==
  /\ Live
  /\ pc = "done"
  /\ Has(trace, "caught")
  /\ HasEvent(trace, "completed")

----------------------------------------------------------------------------
(* C8  A transport failure on the last candidate ends the run with the     *)
(* normalized error, and the run leaves nothing behind: no cache write, no *)
(* entry under its key, no completed event, and no chunk other than those  *)
(* of earlier accepted spans of an image sequence.                         *)
C8_FailureOnLast ==
  /\ Live =>
       \A j \in 1..Len(trace) :
         (trace[j].k = "caught" /\ trace[j].profile = LastCandidate) =>
           /\ pc = "failed"
           /\ j + 1 = Len(trace)
           /\ trace[j + 1] = Failure(normalizeError)
           /\ ~Has(trace, "write")
           /\ ~HoldsEntry(req.cacheKey)
           /\ ~HasEvent(trace, "completed")
           /\ ~Has(trace, "yield")
           /\ Mode = "pdf" => Chunks = <<>>
           /\ Len(spans) = cursor
  /\ pc = "failed" => Has(trace, "caught")

\* an image-sequence run failed after it had yielded the text of a span
C8_FailedAfterSpan ==
  /\ pc = "failed"
  /\ Mode = "image"
  /\ Chunks # <<>>

----------------------------------------------------------------------------
Range(seq) == {seq[i] : i \in 1..Len(seq)}

\* the pieces of a set of ropes
Pieces(ropes) == UNION {Range(r) : r \in ropes}

SliceOf(piece, whole) ==
  /\ piece.src = whole.src
  /\ whole.from <= piece.from
  /\ piece.from < piece.to
  /\ piece.to <= whole.to

\* the texts accepted so far in the run, and those rejected in the current span
AcceptedTexts ==
  {spans[i].text : i \in 1..Len(spans)} \cup Range(TextsOf(Entries(trace, "accepted")))

RejectedTexts == Range(TextsOf(Entries(trace, "rejected")))

\* what the run has handed to the consumer or to the cache store
Surfaced ==
  Range(Chunks)
    \cup {e.entry.text : e \in Range(Entries(trace, "write"))}
    \cup (IF req.cacheKey \in DOMAIN cache /\ Parses(cache[req.cacheKey]) THEN {cache[req.cacheKey].text} ELSE {})

(* C9  Only accepted text is surfaced: in a live run every piece of every  *)
(* chunk yielded, and of the text written to the cache, is a slice of the  *)
(* text of an accepted attempt (or the separator between two spans), and   *)
(* none comes from a rejected attempt.                                     *)
C9_OnlyAcceptedSurfaced ==
  Live =>
    \A p \in Pieces(Surfaced) :
      /\ \/ p = Separator[1]
         \/ \E a \in Pieces(AcceptedTexts) : SliceOf(p, a)
      /\ \A r \in Pieces(RejectedTexts) : p.src # r.src

\* a run that rejected an attempt has completed with chunks and an entry
C9_SurfacedAfterRejection ==
  /\ Live
  /\ pc = "done"
  /\ Has(trace, "rejected")
  /\ Chunks # <<>>
  /\ req.cacheKey \in DOMAIN cache

----------------------------------------------------------------------------
(* C10  Fixed-size chunking: in every run, from the cache or live, every   *)
(* chunk yielded is non-empty and has at most OUTPUT_STREAM_CHUNK_SIZE     *)
(* characters, and every chunk but the last has exactly that many.         *)
C10_FixedSizeChunks ==
  \A i \in 1..Len(Chunks) :
    /\ RopeLen(Chunks[i]) > 0
    /\ RopeLen(Chunks[i]) <= OUTPUT_STREAM_CHUNK_SIZE
    /\ i < Len(Chunks) => RopeLen(Chunks[i]) = OUTPUT_STREAM_CHUNK_SIZE

\* The same, for the runs that go through createTextStream: PDF runs and
\* runs served from the cache.
ChunkedByCreateTextStream ==
  (Mode = "pdf" \/ req.lookup = "hit") => C10_FixedSizeChunks


----------------------------------------------------------------------------
\* the required score of a profile and the margin of the verifier gate, in
\* basis points
RequiredScore(profile) ==
  IF Mode = "pdf" THEN requiredPdfScore(profile) ELSE requiredImageScore(profile)

GateMargin == IF Mode = "pdf" THEN 1200 ELSE 1000

(* C11  Verifier gating: while a verifier request is in flight, the         *)
(* heuristic score of the attempt lies within the margin (0.12 PDF, 0.10   *)
(* image) of the required score of its profile: below required + margin    *)
(* and not below required - margin.                                        *)
C11_VerifierGating ==
  pc = "verifying" =>
    /\ attempt.assessment.score < RequiredScore(attempt.profile) + GateMargin
    /\ attempt.assessment.score >= RequiredScore(attempt.profile) - GateMargin

\* the half of the gate the code has: no request at or above required + margin
C11_SkippedWhenClearlyPassing ==
  pc = "verifying" =>
    attempt.assessment.score < RequiredScore(attempt.profile) + GateMargin

\* a verifier request for an attempt that clearly fails
C11_VerifiedWhenClearlyFailing ==
  /\ pc = "verifying"
  /\ attempt.assessment.score < RequiredScore(attempt.profile) - GateMargin

----------------------------------------------------------------------------
VerifierFailed(e) == e.k = "reply" /\ e.reply.kind \in {"error", "unparseable"}

\* trace[i] is the first event emitted after trace[j]
FirstEventAfter(j, i) ==
  /\ trace[i].k = "event"
  /\ \A m \in (j + 1)..(i - 1) : trace[m].k # "event"

(* C12  Verifier failures never abort an attempt: after a verifier request *)
(* that raised a transport error or returned an unparseable response, the  *)
(* verifier has no opinion, the effective score of the attempt is its      *)
(* heuristic score, and the attempt is accepted or rejected on that score  *)
(* by the usual rule; the verifier produces no failure event and no error. *)
C12_VerifierFailureAbsorbed ==
  (RunPolicyCurrent /\ Live) =>
    \A j \in 1..Len(trace) :
      VerifierFailed(trace[j]) =>
        /\ j + 2 <= Len(trace)
        /\ trace[j + 1].k = "scored"
        /\ trace[j + 1].verifier = NoOpinion
        /\ trace[j + 1].qualityScore = OnBlendScale(trace[j + 1].heuristic)
        /\ trace[j + 2].k \in {"accepted", "rejected"}
        /\ trace[j + 2].profile = trace[j + 1].profile
        /\ trace[j + 2].qualityScore = trace[j + 1].qualityScore
        /\ trace[j + 2].k = "accepted" <=>
             \/ trace[j + 1].qualityScore >= Required(trace[j + 1].profile)
             \/ trace[j + 1].profile = LastCandidate
        /\ \A i \in (j + 3)..Len(trace) :
             FirstEventAfter(j, i) =>
               /\ trace[i].type \in {"profile-accepted", "profile-escalated"}
               /\ "qualityScore" \in DOMAIN trace[i]
               /\ "verificationScore" \notin DOMAIN trace[i]
               /\ trace[i].qualityScore = trace[j + 1].qualityScore
               /\ \A m \in j..i : trace[m].k \notin {"caught", "error"}

\* a failed verifier request after which the attempt was rejected, and one
\* after which it was accepted
C12_RejectedAfterVerifierFailure ==
  /\ RunPolicyCurrent /\ Live
  /\ \E j \in 1..(Len(trace) - 2) :
       VerifierFailed(trace[j]) /\ trace[j + 2].k = "rejected"
  /\ \E j \in 1..(Len(trace) - 2) :
       VerifierFailed(trace[j]) /\ trace[j].reply.kind = "error"
         /\ trace[j + 2].k = "accepted"

----------------------------------------------------------------------------
\* The verifier's score for the attempt scored at trace[i]: the score of the
\* reply when a request was made, 0 for a text too short to be sent, and
\* NoOpinion when the request failed or the verifier was not needed.
VerifierScoreAt(i, text) ==
  IF i > 1 /\ trace[i - 1].k = "reply"
    THEN IF trace[i - 1].reply.kind = "score" THEN trace[i - 1].reply.score
         ELSE NoOpinion
  ELSE IF /\ evaluateQuality(text).score < RequiredScore(trace[i].profile) + GateMargin
          /\ TrimmedLength(text) < 60
    THEN 0
  ELSE NoOpinion

(* C13  Score blending: the effective score of an attempt, on which it is  *)
(* accepted or rejected and which the next event reports, is               *)
(* 0.78 * h + 0.22 * v when the verifier gave the score v for the attempt  *)
(* of heuristic score h, and then lies between min(h, v) and max(h, v); it *)
(* is exactly h when the verifier was not invoked or had no opinion.       *)
C13_ScoreBlending ==
  (RunPolicyCurrent /\ Live) =>
    \A i \in 1..Len(trace) :
      trace[i].k = "scored" =>
        /\ i + 1 <= Len(trace)
        /\ trace[i + 1].k \in {"accepted", "rejected"}
        /\ LET text == trace[i].text
               h == evaluateQuality(text).score
               v == VerifierScoreAt(i, text)
               q == trace[i + 1].qualityScore
           IN  /\ v # NoOpinion =>
                    /\ q * 100 = (7800 * h) + (2200 * v)    \* q on the scale 1e-6
                    /\ q >= OnBlendScale(Min(h, v))
                    /\ q <= OnBlendScale(Max(h, v))
               /\ v = NoOpinion => q = OnBlendScale(h)
               /\ \A e \in (i + 2)..Len(trace) :
                    FirstEventAfter(i, e) =>
                      /\ trace[e].qualityScore = q
                      /\ v # NoOpinion =>
                           /\ "verificationScore" \in DOMAIN trace[e]
                           /\ trace[e].verificationScore = v
                      /\ v = NoOpinion => "verificationScore" \notin DOMAIN trace[e]

\* an attempt rejected on its heuristic score alone, then one whose blended
\* score lies strictly between a lower heuristic and a higher verifier score
C13_BlendedAboveHeuristic ==
  /\ RunPolicyCurrent /\ Live
  /\ \E i \in 2..(Len(trace) - 1) :
       /\ trace[i].k = "scored"
       /\ trace[i - 1].k = "reply"
       /\ trace[i].verifier = BP
       /\ trace[i].heuristic < BP
       /\ trace[i + 1].qualityScore > OnBlendScale(trace[i].heuristic)
       /\ trace[i + 1].qualityScore < OnBlendScale(BP)
  /\ \E i \in 1..(Len(trace) - 1) :
       /\ trace[i].k = "scored"
       /\ trace[i].verifier = NoOpinion
       /\ trace[i + 1].k = "rejected"

----------------------------------------------------------------------------
\* the candidate list of a PDF run whose initial profile is given
PdfCandidatesFrom(initial, modelOverride) ==
  IF modelOverride = "PRO" THEN << "accuracy" >>
  ELSE IF modelOverride = "FLASH"
    THEN (IF initial = "balanced" THEN << "balanced" >> ELSE << "economy", "balanced" >>)
  ELSE SubSeq(OCR_PROFILE_ORDER, ProfileIndex(initial), Len(OCR_PROFILE_ORDER))

\* the size of the document of the run, in quarters of a byte (three per
\* base64 character), and a number of megabytes in that unit
QuarterBytes == world.input.len * 3

MegaBytes(n) == n * 4 * 1024 * 1024

(* C14  PDF candidate selection, as stated: the candidates of a live PDF  *)
(* run are those of C14_PdfCandidates, with the initial profile balanced   *)
(* exactly when the document has at most 4 MB.                             *)
C14_PdfCandidatesAtMost4MB ==
  (Mode = "pdf" /\ Live) =>
    req.candidateProfiles =
      PdfCandidatesFrom(IF QuarterBytes <= MegaBytes(PDF_BALANCED_MAX_MB)
                          THEN "balanced" ELSE "economy",
                        req.modelId)

(* C14  PDF candidate selection: the candidates of a live PDF run are      *)
(* [accuracy] when the high tier is pinned; [balanced] or                  *)
(* [economy, balanced] when the low tier is pinned, as the initial profile *)
(* is balanced or not; and every profile from the initial one through      *)
(* accuracy without an override.  The initial profile is balanced exactly  *)
(* when the document has less than 5 MB (4 MB or less after rounding down  *)
(* to whole megabytes), and economy otherwise, 12 MB and more included.    *)
C14_PdfCandidates ==
  (Mode = "pdf" /\ Live) =>
    req.candidateProfiles =
      PdfCandidatesFrom(IF QuarterBytes < MegaBytes(PDF_BALANCED_MAX_MB + 1)
                          THEN "balanced" ELSE "economy",
                        req.modelId)

\* a run started on a document of more than 4 MB and less than 5 MB, with
\* the low tier pinned
C14_Between4And5MB ==
  /\ Mode = "pdf" /\ Live
  /\ QuarterBytes > MegaBytes(PDF_BALANCED_MAX_MB)
  /\ QuarterBytes < MegaBytes(PDF_BALANCED_MAX_MB + 1)
  /\ req.modelId = "FLASH"
  /\ pc = "done"

----------------------------------------------------------------------------
\* the candidate list of an image run, by override alone
ImageCandidatesFor(modelOverride) ==
  IF modelOverride = "PRO" THEN << "accuracy" >>
  ELSE IF modelOverride = "FLASH" THEN << "economy", "balanced" >>
  ELSE << "economy", "balanced", "accuracy" >>

IsPrefix(s, t) == Len(s) <= Len(t) /\ s = SubSeq(t, 1, Len(s))

(* C15  Image candidate selection: the candidates of a live image run are  *)
(* [economy, balanced, accuracy] without an override, [accuracy] with the  *)
(* high tier pinned and [economy, balanced] with the low tier pinned,      *)
(* whatever the number and the sizes of the images; and every span of the  *)
(* run walks that list from its first profile.                             *)
C15_ImageCandidates ==
  (Mode = "image" /\ Live) =>
    /\ req.candidateProfiles = ImageCandidatesFor(req.modelId)
    /\ \A i \in 1..Len(spans) :
         /\ spans[i].starts # <<>>
         /\ IsPrefix(spans[i].starts, ImageCandidatesFor(req.modelId))
    /\ IsPrefix(ProfilesOf(Events(trace, "profile-start")),
                ImageCandidatesFor(req.modelId))
    /\ pc \in {"generating", "verifying", "yielded"} =>
         ProfilesOf(Events(trace, "profile-start")) # <<>>

\* the second span of a two-page run starting at economy after the first
\* went through the whole list
C15_SecondSpanFromEconomy ==
  /\ Mode = "image" /\ Live
  /\ Len(world.input) = 2
  /\ Len(spans) = 1
  /\ spans[1].starts = << "economy", "balanced", "accuracy" >>
  /\ ProfilesOf(Events(trace, "profile-start")) = << "economy" >>

----------------------------------------------------------------------------
\* the positions of the trace at which an attempt starts
StartsIn(tr) == {j \in 1..Len(tr) : tr[j].k = "event" /\ tr[j].type = "profile-start"}

(* C16  Strictly forward escalation walk: the attempts of a PDF run, and   *)
(* those of each page span, take the candidates in list order from the     *)
(* first, each once and none skipped; an attempt after the first starts    *)
(* right after the profile-escalated event of the candidate before it,     *)
(* whose attempt was rejected or failed; no attempt starts after an        *)
(* acceptance; and a list of one candidate is attempted once and never     *)
(* rejected.                                                               *)
C16_ForwardWalk ==
  Live =>
    /\ IsPrefix(ProfilesOf(Events(trace, "profile-start")), Candidates)
    /\ \A i \in 1..Len(spans) : IsPrefix(spans[i].starts, Candidates)
    /\ \A j \in StartsIn(trace) :
         /\ j > 1 =>
              /\ j > 2
              /\ IsEvent(trace[j - 1], "profile-escalated",
                         Candidates[CandidateIndex(trace[j].profile) - 1])
              /\ trace[j - 2].k \in {"rejected", "caught"}
              /\ trace[j - 2].profile = trace[j - 1].profile
         /\ \A m \in 1..(j - 1) : trace[m].k # "accepted"
    /\ Len(Entries(trace, "accepted")) <= 1
    /\ Len(Candidates) = 1 =>
         /\ Len(Events(trace, "profile-start")) <= 1
         /\ ~Has(trace, "rejected")
         /\ \A i \in 1..Len(spans) : Len(spans[i].starts) = 1

\* a PDF run that went through three candidates: the first rejected, the
\* second failed, the third accepted
C16_WalkedThroughAll ==
  /\ Live /\ Mode = "pdf"
  /\ ProfilesOf(Events(trace, "profile-start")) = << "economy", "balanced", "accuracy" >>
  /\ \E j \in 1..Len(trace) : trace[j].k = "rejected" /\ trace[j].profile = "economy"
  /\ \E j \in 1..Len(trace) : trace[j].k = "caught" /\ trace[j].profile = "balanced"
  /\ \E j \in 1..Len(trace) : trace[j].k = "accepted" /\ trace[j].profile = "accuracy"

\* the 20 MB document with the high tier pinned: one attempt, accepted on a
\* heuristic score of 0.3
C16_SingleCandidateAccepted ==
  /\ Live /\ Mode = "pdf"
  /\ QuarterBytes > MegaBytes(19)
  /\ req.modelId = "PRO"
  /\ Candidates = << "accuracy" >>
  /\ Len(Events(trace, "profile-start")) = 1
  /\ \E j \in 1..Len(trace) :
       trace[j].k = "accepted" /\ trace[j].qualityScore <= OnBlendScale(3000)
  /\ pc = "done"

----------------------------------------------------------------------------
\* the accepted attempts of the run so far: one per span folded in
AcceptedSpans ==
  [i \in 1..Len(spans) |-> [profile |-> spans[i].profile,
                            qualityScore |-> spans[i].qualityScore]]
    \o [i \in 1..Len(Entries(trace, "accepted")) |->
          [profile |-> Entries(trace, "accepted")[i].profile,
           qualityScore |-> Entries(trace, "accepted")[i].qualityScore]]

MinOf(S) == CHOOSE m \in S : \A x \in S : m <= x

\* the minimum of the effective scores of the accepted spans and of 1
WeakestLink ==
  MinOf({AcceptedSpans[i].qualityScore : i \in 1..Len(AcceptedSpans)}
          \cup {OnBlendScale(BP)})

ImageRun == Mode = "image" /\ Live /\ pc \in {"generating", "verifying", "yielded", "done"}

\* the completed event and the cache write of a finished image run
CompletedEvent == Events(trace, "completed")[1]
CacheWrite == Entries(trace, "write")[1]

(* C17  Weakest-link quality, as stated: the quality of every completed   *)
(* image run, in its completed event and in its cache entry, is the        *)
(* minimum of the effective scores of its accepted spans.                  *)
C17_QualityIsMinimum ==
  (ImageRun /\ pc = "done") =>
    /\ CompletedEvent.qualityScore = WeakestLink
    /\ CacheWrite.entry.quality = WeakestLink

(* C17  Weakest-link quality: the quality of a completed image run whose   *)
(* assembled text is not empty, in its completed event and in its cache    *)
(* entry, is the minimum of the effective scores of its accepted spans;    *)
(* it is 0 when the assembled text is empty.  While spans are folded in    *)
(* the running value is the minimum over the spans accepted so far, and so *)
(* never increases.                                                        *)
C17_WeakestLink ==
  ImageRun =>
    /\ pc # "done" => minQualityScore = WeakestLink
    /\ pc = "done" =>
         LET quality == IF accumulated = <<>> THEN 0 ELSE WeakestLink
         IN  /\ CompletedEvent.qualityScore = quality
             /\ CacheWrite.entry.quality = quality
             /\ (~CacheWrite.failed) => cache[req.cacheKey].quality = quality

\* a step of a live image run leaves the running value as it is or lowers it
C17_NeverIncreasesStep ==
  (ImageRun /\ pc # "done") => minQualityScore' <= minQualityScore

C17_NeverIncreases == [][C17_NeverIncreasesStep]_vars

\* a completed two-page run whose first span has the lower score
C17_FirstSpanWeakest ==
  /\ ImageRun /\ pc = "done"
  /\ Len(AcceptedSpans) = 2
  /\ AcceptedSpans[1].qualityScore < AcceptedSpans[2].qualityScore
  /\ accumulated # <<>>
  /\ CompletedEvent.qualityScore = AcceptedSpans[1].qualityScore
  /\ ~CacheWrite.failed

\* a completed run without text, accepted at a score above 0
C17_EmptyRunCompleted ==
  /\ ImageRun /\ pc = "done"
  /\ accumulated = <<>>
  /\ WeakestLink > 0
  /\ CompletedEvent.qualityScore = 0

----------------------------------------------------------------------------
\* the highest, in profile order, of the profiles of the accepted spans
HighestAccepted ==
  CHOOSE p \in {AcceptedSpans[i].profile : i \in 1..Len(AcceptedSpans)} :
    \A i \in 1..Len(AcceptedSpans) :
      ProfileIndex(AcceptedSpans[i].profile) <= ProfileIndex(p)

(* C18  Highest profile: the profile of a completed image run, in its      *)
(* completed event and in its cache entry, is the highest in profile order *)
(* of the profiles at which its spans were accepted; while the run goes on *)
(* the running value is the highest profile of the spans accepted so far   *)
(* (the first candidate before any), so that it never decreases and an     *)
(* escalated or failed attempt does not change it.                         *)
C18_HighestProfile ==
  ImageRun =>
    /\ highestProfile =
         IF AcceptedSpans = <<>> THEN Candidates[1] ELSE HighestAccepted
    /\ pc = "done" =>
         /\ AcceptedSpans # <<>>
         /\ CompletedEvent.profile = HighestAccepted
         /\ CacheWrite.entry.profile = HighestAccepted
         /\ (~CacheWrite.failed) => cache[req.cacheKey].profile = HighestAccepted

\* a completed two-page run: the first span accepted at accuracy after two
\* escalations, the second at economy
C18_HighestIsNotLatest ==
  /\ ImageRun /\ pc = "done"
  /\ Len(AcceptedSpans) = 2
  /\ AcceptedSpans[1].profile = "accuracy"
  /\ AcceptedSpans[2].profile = "economy"
  /\ CompletedEvent.profile = "accuracy"
  /\ ~CacheWrite.failed

----------------------------------------------------------------------------
(* C19  Whole-sequence caching: a live image run writes the cache at most  *)
(* once, after every page span was accepted, and the text it stores is the *)
(* concatenation of the chunks it yielded; before that, and when a span    *)
(* ends in failure, the run leaves no entry under its key.                 *)
C19_WholeSequenceCached ==
  (Mode = "image" /\ Live) =>
    /\ Len(Entries(trace, "write")) <= 1
    /\ pc # "done" =>
         /\ ~Has(trace, "write")
         /\ ~HoldsEntry(req.cacheKey)
    /\ pc = "done" =>
         /\ Len(Entries(trace, "write")) = 1
         /\ Len(AcceptedSpans) = Pages
         /\ CacheWrite.key = req.cacheKey
         /\ CacheWrite.entry.text = ConcatAll(Chunks)
         /\ \A j \in 1..Len(trace) :
              trace[j].k = "write" => \A m \in j..Len(trace) : trace[m].k # "yield"
         /\ IF CacheWrite.failed THEN ~HoldsEntry(req.cacheKey)
            ELSE cache[req.cacheKey].text = ConcatAll(Chunks)

\* a two-page run completed and stored after two chunks
C19_StoredAfterTwoChunks ==
  /\ Mode = "image" /\ Live /\ pc = "done"
  /\ Len(Chunks) = 2
  /\ req.cacheKey \in DOMAIN cache
  /\ cache[req.cacheKey].text = ConcatAll(Chunks)

\* a run that failed on its second span, after the chunk of the first
C19_FailedAfterAcceptedSpan ==
  /\ Mode = "image" /\ Live /\ pc = "failed"
  /\ Len(spans) = 1
  /\ Len(Chunks) = 1
  /\ ~WriteFails
  /\ ~HoldsEntry(req.cacheKey)

----------------------------------------------------------------------------
\* the texts of the accepted spans, in page order, and those with characters
AcceptedSpanTexts ==
  [i \in 1..Len(spans) |-> spans[i].text] \o TextsOf(Entries(trace, "accepted"))

NonEmptySpanTexts == SelectSeq(AcceptedSpanTexts, LAMBDA t : t # <<>>)

\* the texts joined by the separator
RECURSIVE Joined(_)
Joined(texts) ==
  IF texts = <<>> THEN <<>>
  ELSE IF Len(texts) = 1 THEN texts[1]
  ELSE Concat(Concat(texts[1], Separator), Joined(Tail(texts)))

IsSeparator(piece) == piece.src = SepId

(* C20  Span assembly: the text assembled by a live image run is the       *)
(* trimmed texts of its accepted spans that are not empty, in page order,  *)
(* joined by the separator of two newlines; a span yields its trimmed text *)
(* when that is not empty, after the separator exactly when the            *)
(* accumulator was not empty; so the assembled text neither starts nor     *)
(* ends with a separator.                                                  *)
C20_SpanAssembly ==
  (Mode = "image" /\ Live) =>
    /\ accumulated = Joined(NonEmptySpanTexts)
    /\ Len(Chunks) = Len(NonEmptySpanTexts)
    /\ \A i \in 1..Len(Chunks) :
         Chunks[i] = IF i = 1 THEN NonEmptySpanTexts[1]
                     ELSE Concat(Separator, NonEmptySpanTexts[i])
    /\ accumulated # <<>> =>
         /\ ~IsSeparator(accumulated[1])
         /\ ~IsSeparator(accumulated[Len(accumulated)])
    /\ \A j \in 1..Len(trace) :
         trace[j].k = "accepted" =>
           /\ j > 1 /\ trace[j - 1].k = "scored"
           /\ LET f == TextFeatures[trace[j - 1].text.kind]
              IN  trace[j].text =
                    IF f.len - f.lead - f.trail <= 0 THEN <<>>
                    ELSE << [src |-> trace[j - 1].text.id, from |-> f.lead,
                             to |-> f.len - f.trail] >>

\* two spans with text, joined by one separator
C20_TwoSpansJoined ==
  /\ Mode = "image" /\ Live /\ pc = "done"
  /\ Len(NonEmptySpanTexts) = 2
  /\ Len(accumulated) = 3
  /\ IsSeparator(accumulated[2])
  /\ \E j \in 1..Len(trace) :
       trace[j].k = "accepted" /\ RopeLen(trace[j].text) = 2800

\* a span without text before a span with text: no separator
C20_EmptySpanSkipped ==
  /\ Mode = "image" /\ Live /\ pc = "done"
  /\ Len(AcceptedSpanTexts) = 2
  /\ AcceptedSpanTexts[1] = <<>>
  /\ AcceptedSpanTexts[2] # <<>>
  /\ accumulated = AcceptedSpanTexts[2]
----------------------------------------------------------------------------
(* C21  Carry-context budget *)

CarryBudget == ProfilePolicies[attempt.profile].carryContextChars

CarryJoined == JoinLines(CarrySelection(attempt.text))

\* C21  For every text and every budget N >= 0 the extracted carry context is
\* at most N characters long (for N = 0 it is the empty string), and when the
\* de-duplicated selection is longer than N it is the selection's last N
\* characters: the selection is what was cut off followed by the result.
C21_CarryContextBudget ==
  pc = "extracted" =>
    /\ RopeLen(carryContext) <= CarryBudget
    /\ CarryBudget = 0 => carryContext = <<>>
    /\ RopeLen(CarryJoined) > CarryBudget =>
         /\ RopeLen(carryContext) = CarryBudget
         /\ Concat(Slice(CarryJoined, 0, RopeLen(CarryJoined) - CarryBudget),
                   carryContext) = CarryJoined

\* A selection of several lines, one of them dropped as a duplicate, is cut
\* to a budget of 60 characters inside a line.
C21_CutInsideALine ==
  /\ pc = "extracted"
  /\ CarryBudget = 60
  /\ RopeLen(CarryJoined) > 60
  /\ RopeLen(carryContext) = 60
  /\ Len(carryContext) > 1
  /\ carryContext[1].from > 0
  /\ Len(CarrySelection(attempt.text)) < Len(Lines(attempt.text))

\* A budget of zero leaves nothing of a non-empty selection.
C21_NothingAtZero ==
  /\ pc = "extracted"
  /\ CarryBudget = 0
  /\ CarryJoined # <<>>
  /\ carryContext = <<>>

----------------------------------------------------------------------------
(* C26  Heuristic range *)

\* the floor under which a text is too short, and the flat penalty for it
ShortFloor == IF Mode = "pdf" THEN 120 ELSE 80

ShortPenalty == IF Mode = "pdf" THEN 2500 ELSE 2000

Reasons(assessment) == {assessment.reasons[i] : i \in DOMAIN assessment.reasons}

\* C26  For every text the quality heuristic of either service returns a score
\* in [0,1]; for a text whose trimmed length is below the floor (120 for a PDF,
\* 80 for a span) the score carries the flat too-short penalty, so it is at
\* most 1 minus that penalty, and the reasons include the too-short reason.
C26_HeuristicRange ==
  pc = "measured" =>
    /\ attempt.assessment.score \in 0..BP
    /\ TrimmedLength(attempt.text) < ShortFloor =>
         /\ attempt.assessment.score <= BP - ShortPenalty
         /\ "short" \in Reasons(attempt.assessment)

\* The empty text measured by the PDF heuristic: 1 - 0.45 - 0.25.
C26_EmptyText ==
  /\ pc = "measured"
  /\ Mode = "pdf"
  /\ F(attempt.text).len = 0
  /\ attempt.assessment.score = 3000
  /\ attempt.assessment.reasons = <<"fragmented", "short">>

\* A text between the two floors is too short for a PDF only.
C26_BetweenTheFloors ==
  /\ pc = "measured"
  /\ Mode = "image"
  /\ TrimmedLength(attempt.text) = 100
  /\ "short" \notin Reasons(attempt.assessment)

\* A text whose penalties add up to more than 1 scores 0.
C26_ClampedAtZero ==
  /\ pc = "measured"
  /\ F(attempt.text).unreadable = 900
  /\ F(attempt.text).bursts = 8
  /\ attempt.assessment.score = 0

----------------------------------------------------------------------------
(* C28  Heuristic reasons *)

ThresholdNames ==
  {"unreadable", "placeholder", "fragmented", "symbols", "long-tokens", "bursts",
   "short", "structure"}

\* Does this threshold of the heuristic of the mode trigger on the text?
Triggers(name, text) ==
  LET f == F(text)
      chars == Chars(text)
      pdf == Mode = "pdf"
  IN  CASE name = "unreadable" ->
             f.unreadable * 1000 > (IF pdf THEN 3 ELSE 4) * chars
        [] name = "placeholder" ->
             f.placeholder * 1000 > (IF pdf THEN 20 ELSE 25) * chars
        [] name = "fragmented" ->
             f.lines = 0 \/ f.shortLines * 100 > (IF pdf THEN 35 ELSE 40) * f.lines
        [] name = "symbols" -> f.blobs > 3
        [] name = "long-tokens" -> f.longTokens > 2
        [] name = "bursts" -> f.bursts > 1
        [] name = "short" -> TrimmedLength(text) < ShortFloor
        [] name = "structure" ->
             StructureSignal(text) = 0 /\ f.lines > (IF pdf THEN 40 ELSE 30)

ReasonsFollow(names) ==
  pc = "measured" =>
    /\ attempt.assessment.reasons # <<>>
    /\ \A name \in names :
         Triggers(name, attempt.text) => name \in Reasons(attempt.assessment)
    /\ (attempt.assessment.reasons = <<"stable">>)
         <=> (\A name \in names : ~Triggers(name, attempt.text))

\* C28  Every threshold of the quality heuristic that triggers (unreadable
\* rate, placeholder rate, fragmentation, punctuation blobs, long tokens,
\* repeated bursts, too-short floor, missing structure in a long text) appends
\* its own reason; the reasons are never empty, and they are the single
\* "stable" reason exactly when no threshold triggered.
C28_HeuristicReasons == ReasonsFollow(ThresholdNames)

\* The same for the seven thresholds other than missing structure.
C28_ReasonsButStructure == ReasonsFollow(ThresholdNames \ {"structure"})

\* A clean text of fifty lines without a heading or a table row loses 0.06 and
\* is reported stable.
C28_StableWithoutStructure ==
  /\ pc = "measured"
  /\ Triggers("structure", attempt.text)
  /\ attempt.assessment.score = BP - 600
  /\ attempt.assessment.reasons = <<"stable">>

----------------------------------------------------------------------------
(* C22  One page per span *)

\* the pages of the generation calls of the span in progress
CallPages(tr) ==
  LET calls == SelectSeq(tr, LAMBDA e : e.k = "call" /\ e.what = "generate")
  IN  [i \in 1..Len(calls) |-> calls[i].pages]

\* the pages of every resolved span of the run, in the order of resolution
ResolvedSpanPages ==
  [i \in 1..Len(spans) |-> spans[i].pages]
    \o (IF Entries(trace, "accepted") # <<>> THEN << CallPages(trace)[1] >> ELSE <<>>)

\* C22  In a live image-sequence run over n pages every span covers exactly
\* one page, whatever span size the policies declare: the i-th resolved span is
\* page i alone, every attempt of a span is made on that page, the cursor is
\* the number of resolved spans (one more is resolved while its text is being
\* yielded), and a run that completes has resolved exactly n spans.
C22_OnePagePerSpan ==
  Mode = "image" /\ Live =>
    /\ \A i \in 1..Len(ResolvedSpanPages) : ResolvedSpanPages[i] = << i >>
    /\ \A i \in 1..Len(CallPages(trace)) :
         CallPages(trace)[i] = << Len(spans) + 1 >>
    /\ cursor <= Pages
    /\ Len(ResolvedSpanPages) = cursor + (IF pc = "yielded" THEN 1 ELSE 0)
    /\ pc = "done" => Len(ResolvedSpanPages) = Pages

\* The cursor moves only by one, past a span that was accepted.
C22_CursorStep ==
  [][cursor' # cursor /\ reqCount' = reqCount =>
       /\ cursor' = cursor + 1
       /\ Entries(trace', "accepted") # <<>> \/ Len(spans') = cursor']_vars

\* A run over two pages completes after two spans, the first of which was
\* accepted at economy, whose policy declares spans of eight pages.
C22_TwoPagesTwoSpans ==
  /\ Mode = "image" /\ Live /\ pc = "done"
  /\ Pages = 2
  /\ Len(spans) = 1
  /\ spans[1].profile = "economy"
  /\ ProfilePolicies["economy"].imageChunkSize = 8
  /\ ResolvedSpanPages = << <<1>>, <<2>> >>

----------------------------------------------------------------------------
(* C30  Cache I/O failures are absorbed *)

FailedWrites == SelectSeq(trace, LAMBDA e : e.k = "write" /\ e.failed)

\* an error of the run comes from the catch block of the last candidate's
\* attempt or from a span no candidate resolved
ErrorsFromAttempts ==
  \A j \in 1..Len(trace) :
    trace[j].k = "error" =>
      /\ j > 1
      /\ trace[j - 1].k = "caught" \/ IsEvent(trace[j - 1], "profile-escalated", Profile)

\* C30  A cache read that fails or finds an unparseable entry makes the
\* request a cache miss answered by a live run; a cache write that fails
\* leaves the run as it is: profile-accepted is emitted, the whole accepted
\* text is yielded and completed is emitted last.  In neither case does an
\* error reach the caller: the only errors are those of the attempts.
C30_CacheFailuresAbsorbed ==
  /\ (reqCount > 0 /\ req.lookup = "failed") =>
       /\ pc # "cached"
       /\ ~HasEvent(trace, "cache-hit")
       /\ Candidates = (IF Mode = "pdf"
                          THEN resolvePdfCandidateProfiles(world.input, req.modelId)
                          ELSE resolveImageCandidateProfiles(req.modelId))
       /\ ErrorsFromAttempts
  /\ (Live /\ FailedWrites # <<>>) =>
       /\ ErrorsFromAttempts
       /\ pc # "failed"
       /\ HasEvent(trace, "profile-accepted")
       /\ pc = "done" =>
            /\ ConcatAll(Chunks) = FailedWrites[1].entry.text
            /\ IsEvent(trace[Len(trace)], "completed", FailedWrites[1].entry.profile)

\* With the storage out of reach a PDF run has read nothing, stored nothing and
\* streamed its accepted text to the end.
C30_CompletedWithoutStorage ==
  /\ world.storage = "denied"
  /\ Mode = "pdf"
  /\ req.lookup = "failed"
  /\ pc = "done"
  /\ FailedWrites # <<>>
  /\ Len(Chunks) >= 2
  /\ cache = EmptyStore

\* A second request finds the entry that the first run stored over unparseable
\* text.
C30_StoredOverGarbledText ==
  /\ world.storage = "garbled"
  /\ req.lookup = "hit"
  /\ lastRun[req.cacheKey].by = 1
  /\ pc = "done"

\* An image run whose final write failed has completed.
C30_SequenceCompletedUnstored ==
  /\ Mode = "image"
  /\ Live
  /\ pc = "done"
  /\ FailedWrites # <<>>
  /\ Len(spans) = 1

----------------------------------------------------------------------------
(* C25  Cache expiry *)

\* A request's lookup of a stored, readable entry: answered from it while
\* now - createdAt is at most the time-to-live, otherwise a miss that removes
\* it and nothing else.  Nothing stored under the key: a miss, store untouched.
LookupStep ==
  reqCount' = reqCount + 1 =>
    LET k == req'.cacheKey
    IN  IF k \in DOMAIN cache /\ Parses(cache[k]) /\ ~ReadFails
          THEN IF now' - cache[k].createdAt <= OCR_CACHE_TTL_MS
                 THEN /\ req'.lookup = "hit"
                      /\ pending' = createTextStream(cache[k].text)
                      /\ cache' = cache
                 ELSE /\ req'.lookup = "expired"
                      /\ pc' = "ready"
                      /\ k \notin DOMAIN cache'
                      /\ \A other \in DOMAIN cache \ {k} :
                           other \in DOMAIN cache' /\ cache'[other] = cache[other]
          ELSE /\ req'.lookup \in {"miss", "failed"}
               /\ pc' = "ready"
               /\ cache' = cache

\* A key comes into the store, or its entry changes, only by the write of the
\* live run of a request with that key.
StoreStep ==
  \A k \in DOMAIN cache' :
    (k \notin DOMAIN cache \/ cache'[k] # cache[k]) =>
      /\ k = req.cacheKey
      /\ Live
      /\ \E j \in 1..Len(trace') :
           trace'[j] = Write(k, cache'[k], FALSE)

\* C25  A cache lookup returns the stored entry if and only if now - createdAt
\* is at most the time-to-live (24 h); past it the lookup returns nothing and
\* removes the entry, and the key stays out of the store, so that later
\* lookups miss, until the live run of a request with that key writes it.
C25_CacheExpiry == [][LookupStep /\ StoreStep]_vars

\* One millisecond past the time-to-live the second request has missed and the
\* entry of the first run is gone.
C25_ExpiredAndRemoved ==
  /\ pc = "ready"
  /\ reqCount = 2
  /\ req.lookup = "expired"
  /\ req.cacheKey \notin DOMAIN cache
  /\ now = OCR_CACHE_TTL_MS + 2

\* At exactly the time-to-live the entry is still returned.
C25_HitAtTtl ==
  /\ req.lookup = "hit"
  /\ now - cache[req.cacheKey].createdAt = OCR_CACHE_TTL_MS

----------------------------------------------------------------------------
(* C29  Verifier short-circuit *)

\* the verifier is invoked for the attempt scored at trace[i]
VerifierInvoked(i) ==
  trace[i].heuristic < RequiredScore(trace[i].profile) + GateMargin

IsCall(e, what) == e.k = "call" /\ e.what = what

\* C29  Whenever the verifier is invoked on a text whose trimmed length is
\* below 60 characters, its result is the score 0 and no inference call is
\* issued for the verification: the attempt is scored right after its
\* generation call, with no verifier request and no reply in between.
C29_VerifierShortCircuit ==
  (RunPolicyCurrent /\ Live) =>
    /\ pc = "verifying" => TrimmedLength(attempt.text) >= 60
    /\ \A i \in 1..Len(trace) :
         ( /\ trace[i].k = "scored"
           /\ TrimmedLength(trace[i].text) < 60
           /\ VerifierInvoked(i) ) =>
             /\ trace[i].verifier = 0
             /\ trace[i].qualityScore = HeuristicWeight * trace[i].heuristic
             /\ i > 1
             /\ IsCall(trace[i - 1], "generate")

\* An attempt that returned blank text was scored 0 by the verifier, without a
\* request, and rejected.
C29_BlankTextScoredZero ==
  /\ RunPolicyCurrent /\ Live
  /\ \E i \in 2..(Len(trace) - 1) :
       /\ trace[i].k = "scored"
       /\ TrimmedLength(trace[i].text) = 0
       /\ VerifierInvoked(i)
       /\ trace[i].verifier = 0
       /\ IsCall(trace[i - 1], "generate")
       /\ trace[i + 1].k = "rejected"

----------------------------------------------------------------------------
(* C24  Event protocol per span *)

Count(s, x) == Cardinality({i \in 1..Len(s) : s[i] = x})

\* an entry that ends an attempt: its profile-accepted or profile-escalated
\* event, or the failure thrown to the consumer
IsOutcome(e) ==
  \/ e.k = "event" /\ e.type \in {"profile-accepted", "profile-escalated"}
  \/ e.k = "error"

\* the position of the next profile-start after trace[p], or past the end
NextStart(p) ==
  IF \E q \in (p + 1)..Len(trace) : q \in StartsIn(trace)
    THEN CHOOSE q \in (p + 1)..Len(trace) :
           q \in StartsIn(trace) /\ \A m \in (p + 1)..(q - 1) : m \notin StartsIn(trace)
    ELSE Len(trace) + 1

OutcomesOf(p) == {m \in (p + 1)..(NextStart(p) - 1) : IsOutcome(trace[m])}

\* Every attempt of the document, or of the span in progress, ends in exactly
\* one outcome: profile-escalated before a further profile-start, and
\* profile-accepted or the failure after the last one.
AttemptsEndOnce ==
  \A p \in StartsIn(trace) :
    /\ Cardinality(OutcomesOf(p)) <= 1
    /\ NextStart(p) <= Len(trace) =>
         \E m \in OutcomesOf(p) : IsEvent(trace[m], "profile-escalated", trace[p].profile)
    /\ (NextStart(p) > Len(trace) /\ pc \in {"streaming", "yielded", "done", "failed"}) =>
         \E m \in OutcomesOf(p) :
           \/ IsEvent(trace[m], "profile-accepted", trace[p].profile)
           \/ trace[m].k = "error"

\* the events of the spans already folded in
FoldedEvents == [i \in 1..Len(spans) |-> spans[i].events]

\* C24  Event protocol per span, as stated: in every live run each attempt
\* ends once, and every resolved span, like every PDF run that succeeds, has
\* exactly one profile-accepted event and one completed event.
C24_CompletedPerSpan ==
  Live =>
    /\ AttemptsEndOnce
    /\ \A i \in 1..Len(spans) :
         /\ Count(FoldedEvents[i], "profile-accepted") = 1
         /\ Count(FoldedEvents[i], "completed") = 1
    /\ pc = "done" =>
         /\ Count(EventTypes(trace), "profile-accepted") = 1
         /\ Count(EventTypes(trace), "completed") = 1

\* C24, amended: in every live run each profile-start event is followed,
\* before any further profile-start, by exactly one profile-accepted event,
\* one profile-escalated event, or the propagated failure that ends the run;
\* every resolved span, like every PDF run that succeeds, has exactly one
\* profile-accepted event; completed is emitted once per run, as the last
\* event of a run that resolved all its spans, and never for a span alone.
C24_EventProtocol ==
  Live =>
    /\ AttemptsEndOnce
    /\ \A i \in 1..Len(spans) :
         /\ Count(FoldedEvents[i], "profile-accepted") = 1
         /\ Count(FoldedEvents[i], "completed") = 0
    /\ Count(EventTypes(trace), "profile-accepted") <= 1
    /\ pc \in {"streaming", "yielded"} => Count(EventTypes(trace), "profile-accepted") = 1
    /\ pc = "done" =>
         /\ Count(EventTypes(trace), "profile-accepted") = 1
         /\ Count(EventTypes(trace), "completed") = 1
         /\ IsEvent(trace[Len(trace)], "completed", trace[Len(trace)].profile)
         /\ Mode = "image" => Len(spans) + 1 = Pages
    /\ pc # "done" => Count(EventTypes(trace), "completed") = 0

\* A run over two pages has completed: two spans resolved, each after an
\* escalation, two profile-accepted events and one completed event.
C24_TwoSpansOneCompleted ==
  /\ Mode = "image" /\ Live /\ pc = "done"
  /\ Len(spans) = 1
  /\ FoldedEvents[1] = << "profile-start", "profile-escalated", "profile-start",
                          "profile-accepted" >>
  /\ EventTypes(trace) = << "profile-start", "profile-escalated", "profile-start",
                            "profile-accepted", "completed" >>

\* A PDF run has failed on its last candidate after one escalation.
C24_FailureEndsRun ==
  /\ Mode = "pdf" /\ Live /\ pc = "failed"
  /\ EventTypes(trace) = << "profile-start", "profile-escalated", "profile-start" >>
  /\ trace[Len(trace)].k = "error"

-----------------------------------------------------------------------------
(* Two runs compared *)

\* A text's identity without the number of the request that received it: the
\* same response in another run.
SameResponse(id) == <<0, id[2], id[3]>>

Plain(rope) == [i \in DOMAIN rope |-> [rope[i] EXCEPT !.src = SameResponse(@)]]

\* An effect without what belongs to its run: the request number in the texts
\* and the creation time in the cache entry.
Comparable(e) ==
  CASE e.k = "yield" -> [e EXCEPT !.text = Plain(@)]
    [] e.k \in {"accepted", "rejected"} -> [e EXCEPT !.text = Plain(@)]
    [] e.k = "scored" -> [e EXCEPT !.text = [@ EXCEPT !.id = SameResponse(@)]]
    [] e.k = "write" -> [e EXCEPT !.entry = [text |-> Plain(@.text), profile |-> @.profile,
                                              quality |-> @.quality]]
    [] OTHER -> e

ComparableTrace(tr) == [i \in DOMAIN tr |-> Comparable(tr[i])]

\* The chunks, inference calls, decisions and cache writes: all but the events.
Effects(tr) == ComparableTrace(SelectSeq(tr, LAMBDA e : e.k # "event"))

Ended == pc \in {"done", "failed"}

\* The second run goes the way of the first: at every point what it has done is
\* the beginning of what the first did, and it ends where the first ended.
GoesTheSameWay(second, first) ==
  /\ IsPrefix(second, first)
  /\ Ended => /\ second = first
              /\ pc = FirstRun.pc
              /\ cache = FirstRun.cache

C27_RepeatedFailure ==
  /\ Replaying
  /\ req.onEvent = FirstRun.onEvent
  /\ pc = "failed"
  /\ FirstRun.pc = "failed"

\* C23: Observer non-interference.  Of two runs with the same input, cache state
\* and external responses, one with a handler and one without, both yield the
\* same chunks, make the same inference calls, reach the same decisions and
\* leave the same cache state, and end the same way.
C23_ObserverNonInterference ==
  (Replaying /\ (req.onEvent = "none") # (FirstRun.onEvent = "none")) =>
    GoesTheSameWay(Effects(trace), Effects(FirstRun.trace))

\* The same of the handlers that return.
C23_ReturningObserver ==
  (Replaying /\ (req.onEvent = "none") # (FirstRun.onEvent = "none")
             /\ "throws" \notin {req.onEvent, FirstRun.onEvent}) =>
    GoesTheSameWay(Effects(trace), Effects(FirstRun.trace))

\* The run without a handler accepted the first candidate's text; the run whose
\* handler threw on profile-accepted went on to the next candidate.
C23_EscalatedByObserver ==
  /\ Replaying
  /\ FirstRun.onEvent = "none"
  /\ req.onEvent = "throws"
  /\ Len(Entries(FirstRun.trace, "call")) = 1
  /\ Len(Entries(trace, "call")) = 2

-----------------------------------------------------------------------------
(* The verifier's weight in the decision *)

\* C38: The verifier never causes a rejection the heuristic alone would not: an
\* attempt whose heuristic score is at least the profile's required score is
\* accepted, in PDF mode and in image mode, whatever the verifier returns; so
\* every rejected attempt has a heuristic score below the required score.
C38_HeuristicPassSuffices ==
  (Live /\ RunPolicyCurrent) =>
    \A j \in 2..Len(trace) :
      trace[j].k = "rejected" => trace[j - 1].heuristic < RequiredScore(trace[j].profile)

\* An attempt whose heuristic score met the required score was rejected on the
\* verifier's score.
C38_RejectedOnVerifierScore ==
  /\ Live /\ RunPolicyCurrent
  /\ \E j \in 2..Len(trace) :
       /\ trace[j].k = "rejected"
       /\ trace[j - 1].heuristic >= RequiredScore(trace[j].profile)
       /\ trace[j - 1].verifier = 0

\* Without a verifier's opinion the heuristic decides alone.
C38_HeuristicAloneDecides ==
  (Live /\ RunPolicyCurrent) =>
    \A j \in 2..Len(trace) :
      (trace[j].k = "rejected" /\ trace[j - 1].verifier = NoOpinion) =>
        trace[j - 1].heuristic < RequiredScore(trace[j].profile)

-----------------------------------------------------------------------------
(* Models of the inference calls *)

\* C39: Model tier per attempt.  For every override and every profile of the
\* resulting candidate list, the generation call and the verifier call of an
\* attempt at the profile go to the model the policy table assigns to the
\* profile.
C39_ModelTierPerAttempt ==
  Live =>
    /\ \A i \in 1..Len(Candidates) :
         modelForProfile(Candidates[i], req.modelId) = ProfilePolicies[Candidates[i]].model
    /\ \A j \in 1..Len(trace) :
         trace[j].k = "call" =>
           /\ trace[j].model = ProfilePolicies[trace[j].profile].model
           /\ \E i \in 1..Len(Candidates) : Candidates[i] = trace[j].profile

\* A run pinned to the low tier asked the verifier about its balanced attempt.
C39_PinnedLowTierVerified ==
  /\ Live
  /\ req.modelId = "FLASH"
  /\ \E j \in 1..Len(trace) :
       /\ trace[j].k = "call" /\ trace[j].what = "verify"
       /\ trace[j].profile = "balanced" /\ trace[j].model = "FLASH"

\* A run without an override reached the accuracy profile on the high tier.
C39_UnpinnedReachedHighTier ==
  /\ Live
  /\ req.modelId = "none"
  /\ \E j \in 1..Len(trace) :
       trace[j].k = "call" /\ trace[j].profile = "accuracy" /\ trace[j].model = "PRO"

-----------------------------------------------------------------------------
(* Cache hits and the pinned tier *)

\* the candidate list the request's own override and document produce
OwnCandidates ==
  IF Mode = "pdf" THEN resolvePdfCandidateProfiles(world.input, req.modelId)
  ELSE resolveImageCandidateProfiles(req.modelId)

HitProfiles ==
  {trace[j].profile : j \in {i \in 1..Len(trace) : trace[i].k = "event"}}

\* C37: Cache hits respect the tier pin.  Whenever a request is answered from
\* the cache, in PDF mode or image mode, the profile of its cache-hit and
\* completed events is one of the candidate profiles of the request's own
\* override and document.
C37_HitRespectsPin ==
  (reqCount > 0 /\ req.lookup = "hit") =>
    \A p \in HitProfiles : \E i \in 1..Len(OwnCandidates) : OwnCandidates[i] = p

\* The same of image sequences, whose key holds the override.
C37_ImageHitRespectsPin ==
  (reqCount > 0 /\ req.lookup = "hit" /\ Mode = "image") =>
    \A p \in HitProfiles : \E i \in 1..Len(OwnCandidates) : OwnCandidates[i] = p

\* A PDF request pinned to the high tier was answered with a text accepted at a
\* profile of the low tier.
C37_PinnedHighAnsweredLow ==
  /\ reqCount > 0 /\ req.lookup = "hit"
  /\ Mode = "pdf"
  /\ req.modelId = "PRO"
  /\ HitProfiles \subseteq {"economy", "balanced"}
  /\ pc = "done"

\* An image request pinned to the high tier was answered from the cache.
C37_PinnedImageHit ==
  /\ reqCount > 0 /\ req.lookup = "hit"
  /\ Mode = "image"
  /\ req.modelId = "PRO"
  /\ pc = "done"

-----------------------------------------------------------------------------
(* The stream contract of cached and live runs *)

\* The consumer has not pulled from the stream yet: a live generator has not
\* started its body, a cached text has not given its first chunk.
NotPulledYet == pc = "ready" \/ (pc = "cached" /\ ~Has(trace, "yield"))

\* completed is not followed by a chunk, and nothing is emitted before the
\* first pull
StreamContract ==
  /\ \A j \in 1..Len(trace) :
       (trace[j].k = "event" /\ trace[j].type = "completed") =>
         \A m \in j..Len(trace) : trace[m].k # "yield"
  /\ NotPulledYet => Entries(trace, "event") = <<>>

\* C33: Same stream contract from cache and from a live run.  In every run,
\* cache-served or live, the completed event comes only after the last chunk
\* of the transcription was yielded, and no lifecycle event is emitted before
\* the consumer starts to pull from the stream.
C33_SameStreamContract == reqCount > 0 => StreamContract

\* The same of live runs alone.
C33_LiveStreamContract == (reqCount > 0 /\ Live) => StreamContract

\* A cached text is being streamed after its completed event was emitted.
C33_CompletedBeforeChunks ==
  /\ reqCount > 0 /\ req.lookup = "hit"
  /\ pc = "done"
  /\ \E j \in 1..Len(trace) : \E m \in (j + 1)..Len(trace) :
       /\ trace[j].k = "event" /\ trace[j].type = "completed"
       /\ trace[m].k = "yield"

\* A live run completed after it had yielded two chunks.
C33_LiveCompletedAfterChunks ==
  /\ reqCount > 0 /\ Live
  /\ pc = "done"
  /\ Len(Entries(trace, "yield")) >= 2
  /\ trace[Len(trace)].k = "event" /\ trace[Len(trace)].type = "completed"

-----------------------------------------------------------------------------
(* Errors that reach the caller *)

\* the message of a failure on the last candidate, as the caller sees it
NormalizedFailure ==
  IF Mode = "pdf" THEN Failure("Analysis failed: cause")
  ELSE Failure("Image sequence analysis failed: cause")

\* C34: Visible-error taxonomy.  A run ends with an error thrown to the caller
\* only through a failure of the inference call on the last candidate profile,
\* normalized, or through 'could not resolve span'; the latter needs a
\* candidate loop that ends without acceptance or failure, which no list of an
\* accepted override allows, so it is never raised.
C34_VisibleErrors ==
  reqCount > 0 =>
    /\ pc = "failed" <=> Has(trace, "error")
    /\ \A j \in 1..Len(trace) :
         trace[j].k = "error" =>
           /\ Live
           /\ j = Len(trace)
           /\ j > 1
           /\ trace[j - 1] = Caught(LastCandidate)
           /\ trace[j] = NormalizedFailure
           /\ trace[j] # Failure("Could not resolve span")
    /\ Live => Len(Candidates) > 0
    /\ (Live /\ Has(trace, "rejected")) =>
         \A j \in 1..Len(trace) : trace[j].k = "rejected" => trace[j].profile # LastCandidate

\* A run ended with the normalized error after its earlier candidates had been
\* rejected or had failed.
C34_FailedOnLastCandidate ==
  /\ reqCount > 0 /\ Live
  /\ pc = "failed"
  /\ Len(Candidates) > 1
  /\ Has(trace, "rejected")
  /\ trace[Len(trace)] = NormalizedFailure

-----------------------------------------------------------------------------
(* Inference calls in flight *)

\* The call at position j has its response: a generation call once its text is
\* scored or sent to the verifier or its failure is caught, a verifier call
\* once its reply is there.
Answered(tr, j) ==
  IF tr[j].what = "generate"
    THEN \E m \in (j + 1)..Len(tr) :
           tr[m].k \in {"scored", "caught"} \/ (tr[m].k = "call" /\ tr[m].what = "verify")
    ELSE \E m \in (j + 1)..Len(tr) : tr[m].k = "reply"

InFlight(tr) == {j \in 1..Len(tr) : tr[j].k = "call" /\ ~Answered(tr, j)}

\* the generation calls of the trace before position j
EarlierGenerations(tr, j) ==
  {i \in 1..(j - 1) : tr[i].k = "call" /\ tr[i].what = "generate"}

\* C32: Sequential resolution within a request.  A request has at most one
\* inference call in flight; the generation call of the next profile or span is
\* issued only after the decision on the previous attempt (rejected, failed, or
\* accepted for the span before), and the verifier call of an attempt only after
\* the attempt's text is complete.
C32_OneCallInFlight ==
  (reqCount > 0 /\ Live) =>
    /\ Cardinality(InFlight(trace)) <= 1
    /\ InFlight(trace) # {} <=> pc \in {"generating", "verifying"}
    /\ \A j \in 1..Len(trace) :
         (trace[j].k = "call" /\ trace[j].what = "generate") =>
           \A i \in EarlierGenerations(trace, j) :
             \E m \in (i + 1)..(j - 1) : trace[m].k \in {"rejected", "caught"}
    /\ \A j \in 1..Len(trace) :
         (trace[j].k = "call" /\ trace[j].what = "verify") =>
           /\ j > 1
           /\ trace[j - 1].k = "call" /\ trace[j - 1].what = "generate"
           /\ trace[j - 1].profile = trace[j].profile
    /\ pc = "verifying" =>
         /\ attempt.profile = Profile
         /\ attempt.text.id = <<req.number, cursor + 1, idx>>
    /\ (Mode = "image" /\ pc \in {"generating", "verifying"}) => Len(spans) = cursor

\* The third candidate's generation is in flight after one attempt was
\* rejected on the verifier's reply and one failed.
C32_ThirdCallAfterTwoDecisions ==
  /\ reqCount > 0 /\ Live
  /\ pc = "generating"
  /\ idx = 3
  /\ Has(trace, "reply")
  /\ Has(trace, "rejected")
  /\ Has(trace, "caught")

\* The second span's verifier call is in flight.
C32_SecondSpanVerifying ==
  /\ reqCount > 0 /\ Live
  /\ Mode = "image"
  /\ cursor = 1
  /\ pc = "verifying"

-----------------------------------------------------------------------------
(* The carry context from span to span *)

GenerationCalls(tr) == SelectSeq(tr, LAMBDA e : e.k = "call" /\ e.what = "generate")

\* the span is being resolved, or its chunk is with the consumer
SpanOpen == pc \in {"generating", "verifying", "yielded"}

\* every piece of the rope is a line break or lies within the given text
TakenFrom(rope, text) ==
  \A i \in 1..Len(rope) :
    \/ rope[i].src = NewlineId
    \/ \E j \in 1..Len(text) : SliceOf(rope[i], text[j])

\* no text occurs twice in the rope, and no line break of a carry context
NothingCarriedIn(rope) ==
  /\ \A i \in 1..Len(rope) : rope[i].src # NewlineId
  /\ \A i, j \in 1..Len(rope) : (i < j /\ rope[i].src = rope[j].src) => rope[i].src = SepId

\* C36: Carry-context flow.  The carry context in the prompts of a span is
\* empty for the first span and otherwise taken only from the trimmed text of
\* the attempt accepted for the span before, within the carryContextChars of the
\* profile that span was accepted at; it is the same for all attempts of one
\* span, never comes from a rejected or failed attempt, and is never part of the
\* chunks or of the cached text.
C36_CarryContextFlow ==
  (reqCount > 0 /\ Live /\ Mode = "image") =>
    /\ SpanOpen =>
         /\ \A j \in 1..Len(GenerationCalls(trace)) :
              GenerationCalls(trace)[j].carry = carryContext
         /\ cursor = 0 => carryContext = NoCarryContext
         /\ cursor > 0 =>
              /\ Len(spans) = cursor
              /\ TakenFrom(carryContext, spans[cursor].text)
              /\ RopeLen(carryContext)
                   <= ProfilePolicies[spans[cursor].profile].carryContextChars
              /\ carryContext = NoCarryContext <=> spans[cursor].text = <<>>
    /\ NothingCarriedIn(accumulated)
    /\ \A i \in 1..Len(Chunks) : NothingCarriedIn(Chunks[i])
    /\ \A j \in 1..Len(trace) :
         trace[j].k = "write" => NothingCarriedIn(trace[j].entry.text)

\* The second span is at its second candidate, with a context of several lines
\* of the first span's text in both prompts, after the first span was accepted
\* at its second candidate.
C36_SameContextAfterEscalation ==
  /\ reqCount > 0 /\ Live /\ Mode = "image"
  /\ pc = "generating"
  /\ cursor = 1
  /\ idx = 2
  /\ Len(spans[1].starts) = 2
  /\ Len(carryContext) > 1
  /\ Len(GenerationCalls(trace)) = 2

\* The context was cut to the budget of the accepted profile.
C36_ContextCutToBudget ==
  /\ reqCount > 0 /\ Live /\ Mode = "image"
  /\ SpanOpen
  /\ cursor = 1
  /\ RopeLen(carryContext) = ProfilePolicies[spans[1].profile].carryContextChars


-----------------------------------------------------------------------------
\* The key of the first document under the running policy.
FirstKeyNow == buildPdfCacheKey(FirstPayload, Prompt("pdf"))

SameSamples(p, q) == PdfSamples(p) = PdfSamples(q)

\* The first document's run was accepted and stored, and is still fresh.
FirstStored ==
  /\ FirstKeyNow \in DOMAIN lastRun
  /\ lastRun[FirstKeyNow].by = 1
  /\ lastRun[FirstKeyNow].stored

(* C35  Sampled PDF fingerprint: payloads that agree on the length, the    *)
(* first 512 characters, the 512 characters from max(0, floor(length/2) -  *)
(* 256) and the last 512 characters get one key for the same prompt and    *)
(* policy, and payloads that differ in one of the four get different keys; *)
(* after a stored run on the first document a request for a document with  *)
(* the same four values is a hit, answered with the first one's text.      *)
C35_SampledFingerprint ==
  /\ \A p, q \in SampledPayloads :
       SameSamples(p, q) <=>
         buildPdfCacheKey(p, Prompt("pdf")) = buildPdfCacheKey(q, Prompt("pdf"))
  /\ (reqCount = 2 /\ FirstStored /\ SameSamples(world.input, FirstPayload)) =>
       /\ req.lookup = "hit"
       /\ req.cacheKey = FirstKeyNow
       /\ pc = "done" =>
            /\ ConcatAll(Chunks) = lastRun[FirstKeyNow].text
            /\ \A i \in DOMAIN Chunks : \A j \in DOMAIN Chunks[i] : Chunks[i][j].src[1] = 1

\* A request for a document that differs inside the sample from the middle is
\* not answered from the first one's entry.
C35_OtherSampleMisses ==
  (reqCount = 2 /\ ~SameSamples(world.input, FirstPayload)) =>
    /\ req.cacheKey # FirstKeyNow
    /\ req.lookup # "hit"

\* The second document differs from the first outside the samples and has been
\* answered with the first one's text.
C35_AnsweredWithOtherDocument ==
  /\ reqCount = 2
  /\ pc = "done"
  /\ world.input # FirstPayload
  /\ world.input.content # FirstPayload.content
  /\ SameSamples(world.input, FirstPayload)
  /\ FirstStored
  /\ req.lookup = "hit"
  /\ Chunks # <<>>
  /\ ConcatAll(Chunks) = lastRun[FirstKeyNow].text

-----------------------------------------------------------------------------
\* An analysis has finished without error.
FinishedClean == reqCount > 0 /\ ~isAnalyzing /\ error = "null"

\* The concatenation of all chunks of the run.
WholeRun == ConcatAll(TextsOf(Entries(trace, "yield")))

C40_UndisturbedResult ==
  (FinishedClean /\ Resets(trace) = <<>>) => result = WholeRun

\* A run has finished on a page that shows the end of its text only.
C40_SuffixShown ==
  /\ FinishedClean
  /\ pc = "done"
  /\ result # <<>>
  /\ result # WholeRun
  /\ RopeLen(result) < RopeLen(WholeRun)

-----------------------------------------------------------------------------
\* The chunks a call has yielded, the texts it holds, and the requests whose
\* responses they were cut from (0 for the separators).
ChunksOf(c) ==
  Flatten([i \in 1..Len(c.spans) |-> c.spans[i].yielded]) \o TextsOf(Entries(c.trace, "yield"))

HeldBy(c) ==
  {ChunksOf(c)[i] : i \in DOMAIN ChunksOf(c)} \cup {c.pending[i] : i \in DOMAIN c.pending}
    \cup {c.accumulated, c.carryContext}
    \cup {e.text : e \in {c.trace[i] : i \in {j \in DOMAIN c.trace : c.trace[j].k = "accepted"}}}

RequestsIn(rope) == {rope[i].src[1] : i \in DOMAIN rope} \ {0}

Writes(c) == Entries(c.trace, "write")

BothCalls == {Locals, suspended}

\* What a call holds comes from its own responses, or from the entry it found.
OwnState(c) ==
  /\ c.req.lookup # "hit" =>
       /\ \A rope \in HeldBy(c) : RequestsIn(rope) \subseteq {c.req.number}
       /\ c.attempt.text.id[1] \in {0, c.req.number}
       /\ Mode = "image" => ConcatAll(ChunksOf(c)) = c.accumulated
       /\ \A i \in DOMAIN ChunksOf(c) : i > 1 \/ SepId \notin {p.src : p \in {ChunksOf(c)[i][j] : j \in DOMAIN ChunksOf(c)[i]}}
  /\ c.req.lookup = "hit" =>
       LET found == ConcatAll(ChunksOf(c) \o c.pending)
           hit == Events(c.trace, "cache-hit")[1]
       IN  /\ Cardinality(RequestsIn(found)) <= 1
           /\ c.req.number \notin RequestsIn(found)
           /\ \A o \in BothCalls :
                (o.req.number \in RequestsIn(found)) =>
                  /\ Writes(o) # <<>>
                  /\ Writes(o)[1].key = c.req.cacheKey
                  /\ Writes(o)[1].entry.text = found
                  /\ Writes(o)[1].entry.profile = hit.profile
                  /\ Writes(o)[1].entry.quality = hit.qualityScore

\* A stored entry is whole and of one request; while that request's call is
\* there, the entry is the one the call wrote.
EntriesWhole ==
  \A k \in DOMAIN cache :
    /\ Cardinality(RequestsIn(cache[k].text)) <= 1
    /\ \A c \in BothCalls :
         (c.req.number \in RequestsIn(cache[k].text)) =>
           (Writes(c) # <<>> /\ Writes(c)[1].key = k /\ Writes(c)[1].entry = cache[k])

\* A step that writes leaves, under its key, the entry it wrote.
LastWriterWins ==
  Len(Entries(trace', "write")) > Len(Entries(trace, "write")) /\ req' = req =>
    /\ req.cacheKey \in DOMAIN cache'
    /\ cache'[req.cacheKey] = Entries(trace', "write")[1].entry
    /\ \A k \in DOMAIN cache \ {req.cacheKey} : k \in DOMAIN cache' /\ cache'[k] = cache[k]

\* A call in progress can take its next step: the step of its position or,
\* after a yield, the pull that goes on to the next span or to the end (the
\* carry context it computes on the way is left aside).
NeverBlocked ==
  InProgress =>
    IF pc = "yielded"
      THEN ENABLED (/\ cursor' = cursor + Consumed(cursor)
                    /\ SequenceStep(trace, cursor + Consumed(cursor), accumulated,
                                    highestProfile, minQualityScore, NoCarryContext))
      ELSE ENABLED Step

(* C31  Concurrent requests: with two requests interleaved at their        *)
(* suspension points, what each call yields, holds and decides on comes    *)
(* from its own responses or from the cache entry it found (accumulated    *)
(* text, quality floor and cursor are its own); a call in progress can     *)
(* always take its next step, whatever the other does; every stored entry  *)
(* is the whole entry of one run, and a write leaves the writer's entry.   *)
C31_ConcurrentRequests ==
  /\ [](\A c \in BothCalls : OwnState(c))
  /\ []NeverBlocked
  /\ []EntriesWhole
  /\ [][LastWriterWins]_vars

\* Two live runs of the same request have both written, the second over the
\* first, and both have streamed their own text to the end.
C31_TwoWriters ==
  /\ pc = "done"
  /\ suspended.pc = "done"
  /\ req.lookup = "miss"
  /\ suspended.req.lookup = "miss"
  /\ req.cacheKey = suspended.req.cacheKey
  /\ Writes(Locals) # <<>>
  /\ Writes(suspended) # <<>>
  /\ Writes(Locals)[1].entry # Writes(suspended)[1].entry
  /\ cache[req.cacheKey] = Writes(Locals)[1].entry
  /\ ChunksOf(Locals) # <<>>
  /\ ChunksOf(suspended) # <<>>
AllOwnState == \A c \in BothCalls : OwnState(c)
====
